---- MODULE Spec2Model ----
(***************************************************************************)
(* Bet confirmation (BetsService) and bet settlement (the bet-settlement   *)
(* worker) of the tokku server, as a state machine, with the pure          *)
(* functions of BetsService (selection codec, odds) and                    *)
(* createBetTransaction checked under specifications of their own.         *)
(*                                                                         *)
(* Every `await` of the TypeScript code is a point where another request   *)
(* or job may run.  An action of this module is the code between two such  *)
(* points; consecutive awaits are merged into one action only when the     *)
(* merged steps commute with every step of every other flow (two reads of  *)
(* unrelated documents, a gateway call whose result only the caller sees). *)
(*                                                                         *)
(* Amounts: odds are kept in integer hundredths (190 is 1.90) and payouts  *)
(* in hundredths of a stake unit (a refund of stake 2 is 200).             *)
(***************************************************************************)
EXTENDS Integers, Sequences, FiniteSets, TLC

\* ------------------------------------------------------------------ bounds
\* Concurrent confirmBet calls.
NumCallers == 2
\* Bets of the round when the settlement job is first delivered.
MaxBets == 2
\* config.MAX_STREAK_TARGET.
MaxStreakTarget == 5
\* House edges tried below 0 and above 10000 basis points.
EdgeSlack == 2
\* config.ROUND_DURATION_SECONDS and config.LOCK_DURATION_SECONDS, in clock ticks.
RoundDuration == 4
LockBuffer == 2

\* ------------------------------------------------------- program constants
\* confirmBet: retries of the bet-account lookup after the first one.
PollRetries == 20
\* processBetSettlementJob: maxUndelegateAttempts.
MaxUndelegateAttempts == 3
\* calculateOdds: basis points of 100%.
BpsScale == 10000

\* A field that is null / undefined / absent.
Null == -1

Max(a, b) == IF a >= b THEN a ELSE b
Min(a, b) == IF a <= b THEN a ELSE b

\* ---------------------------------------------------------------- enums
PREDICTING == "PREDICTING"
LOCKED == "LOCKED"
SETTLED == "SETTLED"
FAILED == "FAILED"
RoundStatus == {PREDICTING, LOCKED, SETTLED, FAILED}

PENDING == "PENDING"
WON == "WON"
LOST == "LOST"
REFUNDED == "REFUNDED"
BetStatus == {PENDING, WON, LOST, REFUNDED}

\* ------------------------------------------------------------ Odds Engine
\* Equal bins priced without the 1.00 floor.
fromEqualBinsUnfloored(n, edge) == (n * 100 * BpsScale) \div (BpsScale + edge)

\* fromEqualBins(n): Math.max(1, Math.floor(n * edgeFactor * 100) / 100)
\* with edgeFactor = 10000 / (10000 + edge), in hundredths.
fromEqualBins(n, edge) == Max(100, (n * 100 * BpsScale) \div (BpsScale + edge))

\* A ratio priced with the edge factor upside down.
fromProbabilityInverted(num, den, edge) ==
    IF num = 0 \/ den = 0 THEN 0
    ELSE Max(100, (den * 100 * (BpsScale + edge)) \div (num * BpsScale))

\* fromProbability(num, den): 0 when num or den is 0, else
\* Math.max(1, Math.floor((den / num) * edgeFactor * 100) / 100), in hundredths.
fromProbability(num, den, edge) ==
    IF num = 0 \/ den = 0 THEN 0
    ELSE Max(100, (den * 100 * BpsScale) \div (num * (BpsScale + edge)))

Has(sel, f) == f \in DOMAIN sel
\* selection.type === t, false for a selection without type.
TypeIs(sel, t) == Has(sel, "type") /\ sel.type = t
\* selection.f, Null when the field is undefined.
Field(sel, f) == IF Has(sel, f) THEN sel[f] ELSE Null

\* choose(n, k) of the COMMUNITY_SEED case.
RECURSIVE chooseProd(_, _, _)
chooseProd(n, k, i) == IF i >= k THEN 1 ELSE (n - i) * chooseProd(n, k, i + 1)
RECURSIVE factProd(_, _)
factProd(k, i) == IF i >= k THEN 1 ELSE (i + 1) * factProd(k, i + 1)
choose(n, k) ==
    IF k < 0 \/ k > n THEN 0
    ELSE LET kk == Min(k, n - k) IN chooseProd(n, kk, 0) \div factProd(kk, 0)

RECURSIVE chooseSum(_, _)
chooseSum(t, k) == IF k > t THEN 0 ELSE choose(8, k) + chooseSum(t, k + 1)

patternCounts == <<168, 10, 29, 52, 73, 437, 231>>

calculateOdds(selection, marketType, houseEdgeBps) ==
    LET edge == Min(Max(houseEdgeBps, 0), BpsScale) IN
    CASE marketType = "PICK_RANGE" ->
           IF TypeIs(selection, "range")
           THEN IF ~(Has(selection, "min") /\ Has(selection, "max"))
                THEN 0  \* width is NaN: fromProbability(NaN, 100) returns 0
                ELSE LET width == selection.max - selection.min + 1 IN
                     IF width > 0 /\ 100 % width = 0
                     THEN fromEqualBins(100 \div width, edge)
                     ELSE fromProbability(width, 100, edge)
           ELSE IF TypeIs(selection, "single") THEN fromEqualBins(100, edge)
           ELSE fromEqualBins(2, edge)
      [] marketType = "EVEN_ODD" -> fromEqualBins(2, edge)
      [] marketType = "LAST_DIGIT" -> fromEqualBins(10, edge)
      [] marketType = "MODULO_THREE" -> fromEqualBins(3, edge)
      [] marketType = "JACKPOT" -> fromEqualBins(100, edge)
      [] marketType = "ENTROPY_BATTLE" -> fromEqualBins(3, edge)
      [] marketType = "SHAPE_COLOR" ->
           LET shapes == IF Has(selection, "shape") THEN 1 ELSE 4
               colors == IF Has(selection, "color") THEN 1 ELSE 6
               sizes == IF Has(selection, "size") THEN 1 ELSE 3
           IN fromProbability(shapes * colors * sizes, 72, edge)
      [] marketType = "PATTERN_OF_DAY" ->
           LET idx == IF Has(selection, "patternId") THEN selection.patternId ELSE 6
               num == IF idx \in 0..6 THEN patternCounts[idx + 1] ELSE patternCounts[7]
           IN fromProbability(num, 1000, edge)
      [] marketType = "COMMUNITY_SEED" ->
           LET raw == IF Has(selection, "tolerance") THEN selection.tolerance
                      ELSE IF Has(selection, "t") THEN selection.t ELSE 0
               t == Max(0, Min(8, raw))
           IN fromProbability(chooseSum(t, 0), 256, edge)
      [] OTHER -> fromEqualBins(2, edge)

\* -------------------------------------------------------- Selection Codec
MarketTypes ==
    {"PICK_RANGE", "EVEN_ODD", "LAST_DIGIT", "MODULO_THREE", "PATTERN_OF_DAY",
     "SHAPE_COLOR", "ENTROPY_BATTLE", "STREAK_METER", "COMMUNITY_SEED", "JACKPOT"}

\* JavaScript comparisons: false when an operand is undefined.
Lt(x, y) == x # Null /\ y # Null /\ x < y
Gt(x, y) == x # Null /\ y # Null /\ x > y

\* validByte of the SHAPE_COLOR case.
validByte(n) == n = Null \/ (n >= 0 /\ n <= 255)

\* TRUE when validateSelection returns, FALSE when it throws ValidationError.
validateSelection(selection, marketType) ==
    /\ Has(selection, "type")
    /\ CASE marketType = "PICK_RANGE" ->
             IF selection.type = "range"
             THEN ~(\/ Lt(Field(selection, "min"), 1)
                    \/ Gt(Field(selection, "max"), 100)
                    \/ Gt(Field(selection, "min"), Field(selection, "max")))
             ELSE IF selection.type = "single"
             THEN ~(Lt(Field(selection, "value"), 1) \/ Gt(Field(selection, "value"), 100))
             ELSE TRUE
        [] marketType = "EVEN_ODD" ->
             Has(selection, "value") /\ selection.value \in {"even", "odd"}
        [] marketType = "LAST_DIGIT" ->
             ~(Lt(Field(selection, "value"), 0) \/ Gt(Field(selection, "value"), 9))
        [] marketType = "MODULO_THREE" ->
             ~(Lt(Field(selection, "value"), 0) \/ Gt(Field(selection, "value"), 2))
        [] marketType = "PATTERN_OF_DAY" ->
             Has(selection, "patternId") /\ selection.patternId \in 0..6
        [] marketType = "SHAPE_COLOR" ->
             /\ validByte(Field(selection, "shape"))
             /\ validByte(Field(selection, "color"))
             /\ validByte(Field(selection, "size"))
        [] marketType = "ENTROPY_BATTLE" ->
             Has(selection, "source") /\ selection.source \in {"tee", "chain", "sensor"}
        [] marketType = "STREAK_METER" ->
             ~(\/ Lt(Field(selection, "target"), 2)
               \/ Gt(Field(selection, "target"), MaxStreakTarget))
        [] marketType = "COMMUNITY_SEED" ->
             ~(Lt(Field(selection, "byte"), 0) \/ Gt(Field(selection, "byte"), 255))
        [] OTHER -> FALSE

\* What encodeSelection returns for a market type it does not know.
EncodeThrows == [kind |-> Null, a |-> 0, b |-> 0, c |-> 0]

\* `x ?? d`
OrElse(x, d) == IF x = Null THEN d ELSE x

encodeSelection(selection, marketType) ==
    CASE marketType = "PICK_RANGE" ->
           IF TypeIs(selection, "range")
           THEN [kind |-> 0, a |-> Field(selection, "min"), b |-> Field(selection, "max"),
                 c |-> 0]
           ELSE [kind |-> 1, a |-> Field(selection, "value"), b |-> 0, c |-> 0]
      [] marketType = "EVEN_ODD" ->
           [kind |-> 2, a |-> IF Has(selection, "value") /\ selection.value = "even"
                              THEN 0 ELSE 1,
            b |-> 0, c |-> 0]
      [] marketType = "LAST_DIGIT" ->
           [kind |-> 3, a |-> Field(selection, "value"), b |-> 0, c |-> 0]
      [] marketType = "MODULO_THREE" ->
           [kind |-> 4, a |-> Field(selection, "value"), b |-> 0, c |-> 0]
      [] marketType = "PATTERN_OF_DAY" ->
           [kind |-> 5, a |-> OrElse(Field(selection, "patternId"), 0), b |-> 0, c |-> 0]
      [] marketType = "SHAPE_COLOR" ->
           [kind |-> 6, a |-> OrElse(Field(selection, "shape"), 255),
            b |-> OrElse(Field(selection, "color"), 255),
            c |-> OrElse(Field(selection, "size"), 255)]
      [] marketType = "ENTROPY_BATTLE" ->
           [kind |-> 7,
            a |-> IF ~Has(selection, "source") THEN 0
                  ELSE CASE selection.source = "tee" -> 0
                         [] selection.source = "chain" -> 1
                         [] selection.source = "sensor" -> 2
                         [] OTHER -> 0,
            b |-> 0, c |-> 0]
      [] marketType = "STREAK_METER" ->
           [kind |-> 8, a |-> Field(selection, "target"), b |-> 0, c |-> 0]
      [] marketType = "COMMUNITY_SEED" ->
           [kind |-> 9, a |-> Field(selection, "byte"), b |-> 0, c |-> 0]
      [] OTHER -> EncodeThrows

decodeSelection(encoded, marketType) ==
    CASE marketType = "PICK_RANGE" ->
           IF encoded.kind = 0
           THEN [type |-> "range", min |-> encoded.a, max |-> encoded.b]
           ELSE [type |-> "single", value |-> encoded.a]
      [] marketType = "EVEN_ODD" ->
           [type |-> "parity", value |-> IF encoded.a = 0 THEN "even" ELSE "odd"]
      [] marketType = "LAST_DIGIT" -> [type |-> "digit", value |-> encoded.a]
      [] marketType = "MODULO_THREE" -> [type |-> "modulo", value |-> encoded.a]
      [] marketType = "PATTERN_OF_DAY" -> [type |-> "pattern", patternId |-> encoded.a]
      [] marketType = "SHAPE_COLOR" ->
           [type |-> "shape", shape |-> encoded.a, color |-> encoded.b, size |-> encoded.c]
      [] marketType = "ENTROPY_BATTLE" ->
           [type |-> "entropy",
            source |-> IF encoded.a \in 0..2
                       THEN <<"tee", "chain", "sensor">>[encoded.a + 1] ELSE "tee"]
      [] marketType = "STREAK_METER" -> [type |-> "streak", target |-> encoded.a]
      [] marketType = "COMMUNITY_SEED" -> [type |-> "community", byte |-> encoded.a]
      [] OTHER -> [none |-> TRUE]

\* ------------------------------------------------------------ checkBetWon
parseEntropySource(source) ==
    CASE source = "tee" -> 0
      [] source = "chain" -> 1
      [] source = "sensor" -> 2
      [] OTHER -> -1

\* A check that takes a range as half-open and knows no other selection.
checkBetWonHalfOpen(selection, outcome) ==
    /\ outcome.tag = "Numeric" /\ TypeIs(selection, "range")
    /\ ~Lt(outcome.value, Field(selection, "min")) /\ Field(selection, "min") # Null
    /\ Lt(outcome.value, Field(selection, "max"))

\* The outcome is a tagged union: [tag |-> "Numeric", value |-> v],
\* [tag |-> "Shape", shape |-> s, color |-> c], ...  A comparison with a field that
\* is undefined is false; `!selection.color` is true for undefined and for 0.
checkBetWon(selection, outcome) ==
    CASE outcome.tag = "Numeric" ->
           LET value == outcome.value IN
           CASE TypeIs(selection, "range") ->
                  /\ ~Lt(value, Field(selection, "min")) /\ Field(selection, "min") # Null
                  /\ ~Gt(value, Field(selection, "max")) /\ Field(selection, "max") # Null
             [] TypeIs(selection, "single") -> value = Field(selection, "value")
             [] TypeIs(selection, "parity") ->
                  /\ Has(selection, "value")
                  /\ \/ (value % 2 = 0 /\ selection.value = "even")
                     \/ (value % 2 = 1 /\ selection.value = "odd")
             [] TypeIs(selection, "digit") -> value % 10 = Field(selection, "value")
             [] TypeIs(selection, "modulo") -> value % 3 = Field(selection, "value")
             [] OTHER -> FALSE
      [] outcome.tag = "Shape" ->
           /\ TypeIs(selection, "shape")
           /\ Field(selection, "shape") = outcome.shape
           /\ (Field(selection, "color") \in {Null, 0}
                 \/ Field(selection, "color") = outcome.color)
      [] outcome.tag = "Pattern" ->
           TypeIs(selection, "pattern") /\ Field(selection, "patternId") = outcome.pattern_id
      [] outcome.tag = "Entropy" ->
           /\ TypeIs(selection, "entropy") /\ Has(selection, "source")
           /\ outcome.winner = parseEntropySource(selection.source)
      [] outcome.tag = "Community" ->
           TypeIs(selection, "community") /\ Field(selection, "byte") = outcome.final_byte
      [] OTHER -> FALSE


\* ================================================================= state
Users == {"u1", "u2"}
\* A user document without walletAddress (bet.userId?.walletAddress undefined).
walletAddress(u) == IF u = "u1" THEN "wallet-u1" ELSE "none"

\* Transaction signatures a client may send.
Sigs == {1, 2}
\* Round 1 is the round document of the model; round 2 is an id of no document.
RoundIds == {1, 2}
\* What a client sends as (stake, selection) with a confirmation.
ClientInputs == {[stake |-> 1, selection |-> [type |-> "parity", value |-> "even"]],
                 [stake |-> 2, selection |-> [type |-> "parity", value |-> "odd"]]}
\* What the bet account of a user holds on the ledger once the user's bet transaction
\* is confirmed: the stake and the encoded selection (EVEN_ODD is kind 2).
ChainBet(u) ==
    IF u = "u1" THEN [stake |-> 1, selection |-> [kind |-> 2, a |-> 0, b |-> 0, c |-> 0]]
    ELSE [stake |-> 2, selection |-> [kind |-> 2, a |-> 1, b |-> 0, c |-> 0]]
NoAccount == [stake |-> 0, selection |-> [kind |-> 0, a |-> 0, b |-> 0, c |-> 0]]

Callers == 1..NumCallers
BetIds == 1..(MaxBets + NumCallers)

VARIABLES
    bets,         \* the Bet collection: a sequence, _id = index
    round,        \* the Round document of round 1
    market,       \* the Market document of the round (read-only)
    leaderboard,  \* LeaderboardEntry per user; "none" fields until upserted
    lock,         \* redis bet-confirm-lock:<sig> (SET NX EX 30)
    cache,        \* redis bet-confirm:<sig> -> bet id, 0 when absent
    betCount,     \* redis betCount(roundId)
    betAccount,   \* ledger: the bet account of each user, NoAccount until it lands
    ledger,       \* ledger: per Bet, the settleBet / refundBet calls it received
    calls,        \* confirmBet calls in flight
    run,          \* processBetSettlementJob: the delivery in progress, or the last one
    refund,       \* the refundBets call in flight
    delegated,    \* ledger: the round account lives on the side-ledger
    create,       \* the createBetTransaction call in flight
    codec,        \* a selection on its way through encodeSelection and decodeSelection
    quote         \* calculateOdds of a selection at a house edge

dbVars == <<bets, round, market, leaderboard>>
redisVars == <<lock, cache, betCount>>
confirmVars == <<calls, redisVars, betAccount>>
requestVars == <<create, codec, quote>>
vars == <<bets, round, market, leaderboard, lock, cache, betCount, betAccount, ledger,
          calls, run, refund, delegated, create, codec, quote>>

\* kind: "ok" or the error thrown; via: the return statement that produced it.
\* decoded (of a call): decodeBetAccount returned the bet record, it did not throw.
NoResult == [kind |-> "none", betId |-> 0, via |-> "none"]
IdleCall ==
    [pc |-> "idle",
     args |-> [userId |-> "u1", txSignature |-> 1, roundId |-> 1, stake |-> 0,
               selection |-> [type |-> "parity", value |-> "even"]],
     acquired |-> FALSE, visibleAtStart |-> FALSE, lookups |-> 0, decoded |-> FALSE,
     result |-> NoResult]

\* Round documents use booleans for "the field is set".
IsDelegated(r) == r.delegateTxHash /\ ~r.undelegateTxHash

NoOutcome == [tag |-> "none", value |-> 0]

\* A lookup by signature that finds nothing.
NoBetBySignature(sig) == 0

\* Bet.findOne({ txSignature }): the _id of a Bet with that signature, 0 when none.
BetBySignature(sig) ==
    IF \E i \in DOMAIN bets : bets[i].txSignature = sig
    THEN CHOOSE i \in DOMAIN bets : bets[i].txSignature = sig
    ELSE 0

NoUniqueIndex(sig) == FALSE

\* The unique index on Bet.txSignature: what makes Bet.create fail with code 11000.
DuplicateKey(sig) == \E i \in DOMAIN bets : bets[i].txSignature = sig

\* ------------------------------------------------------------ confirmBet
\* The call is over: its locals are dead, the signature and the round it named and
\* its result stay for the caller.
Returned(c, res, lookups) ==
    [calls EXCEPT ![c].pc = "done", ![c].lookups = lookups, ![c].result = res,
                  ![c].decoded = FALSE,
                  ![c].args = [IdleCall.args EXCEPT
                                 !.txSignature = calls[c].args.txSignature,
                                 !.roundId = calls[c].args.roundId]]

Return(c, kind, id, via) ==
    calls' = Returned(c, [kind |-> kind, betId |-> id, via |-> via], 0)

\* lines 104-107: redis SET lockKey NX EX 30.
confirmBet_acquireLock(c) ==
    /\ calls[c].pc = "idle"
    /\ \E u \in Users, sig \in Sigs, rid \in RoundIds, ci \in ClientInputs :
         LET acquired == ~lock[sig] IN
         /\ calls' = [calls EXCEPT
                ![c].pc = IF acquired THEN "loadRound" ELSE "findDuplicate",
                ![c].args = [userId |-> u, txSignature |-> sig, roundId |-> rid,
                             stake |-> ci.stake, selection |-> ci.selection],
                ![c].acquired = acquired,
                ![c].visibleAtStart = (betAccount[u] # NoAccount)]
         /\ lock' = [lock EXCEPT ![sig] = TRUE]
    /\ UNCHANGED <<requestVars, dbVars, cache, betCount, betAccount, ledger, run, refund, delegated>>

\* lines 108-109: lock not acquired, Bet.findOne({ txSignature }).
confirmBet_findDuplicate(c) ==
    /\ calls[c].pc = "findDuplicate"
    /\ LET duplicate == BetBySignature(calls[c].args.txSignature) IN
       IF duplicate # 0
       THEN Return(c, "ok", duplicate, "duplicate")
       ELSE calls' = [calls EXCEPT ![c].pc = "cacheLookup"]
    /\ UNCHANGED <<requestVars, dbVars, redisVars, betAccount, ledger, run, refund, delegated>>

\* lines 110-116: redis.get(cacheKey), then Bet.findById. Bets are never deleted,
\* so the cached id always resolves.
confirmBet_cacheLookup(c) ==
    /\ calls[c].pc = "cacheLookup"
    /\ LET existingBetId == cache[calls[c].args.txSignature] IN
       IF existingBetId # 0 /\ existingBetId \in DOMAIN bets
       THEN Return(c, "ok", existingBetId, "cached")
       ELSE calls' = [calls EXCEPT ![c].pc = "loadRound"]
    /\ UNCHANGED <<requestVars, dbVars, redisVars, betAccount, ledger, run, refund, delegated>>

\* A status check that turns away only a FAILED round.
AcceptsUnlessFailed(status) == status # FAILED

AcceptsConfirmations(status) == status = PREDICTING \/ status = LOCKED

\* lines 119-123: Round.findById and the status check.
confirmBet_loadRound(c) ==
    /\ calls[c].pc = "loadRound"
    /\ IF calls[c].args.roundId # 1
       THEN Return(c, "NotFoundError", 0, "throw")
       ELSE IF ~AcceptsConfirmations(round.status)
       THEN Return(c, "ConflictError", 0, "throw")
       ELSE calls' = [calls EXCEPT ![c].pc = "poll"]
    /\ UNCHANGED <<requestVars, dbVars, redisVars, betAccount, ledger, run, refund, delegated>>

\* The retry before which an account that is absent at the first lookup shows up.
LandsAt == {1, PollRetries}

\* lines 125-131, 145-146: one getAccountInfo, then up to PollRetries more, 250 ms
\* apart. The loop reads nothing but the ledger, so it is one action: the account is
\* there at the first lookup, or lands before retry k, or never shows up.
confirmBet_pollAccount(c) ==
    /\ calls[c].pc = "poll"
    /\ LET u == calls[c].args.userId IN
       \/ /\ betAccount[u] # NoAccount
          /\ calls' = [calls EXCEPT ![c].pc = "create", ![c].lookups = 1]
          /\ UNCHANGED betAccount
       \/ /\ betAccount[u] = NoAccount
          /\ \E k \in LandsAt :
               /\ betAccount' = [betAccount EXCEPT ![u] = ChainBet(u)]
               /\ calls' = [calls EXCEPT ![c].pc = "create", ![c].lookups = 1 + k]
       \/ /\ betAccount[u] = NoAccount
          /\ calls' = Returned(c, [kind |-> "ValidationError", betId |-> 0, via |-> "throw"],
                                1 + PollRetries)
          /\ UNCHANGED betAccount
    /\ UNCHANGED <<requestVars, dbVars, redisVars, ledger, run, refund, delegated>>

\* A stake taken from the client's request whatever the bet account holds.
FinalStakeOfClient(c, decoded) == calls[c].args.stake

\* lines 477-510: the stake and selection to store. decodeBetAccount may throw; a
\* decoded stake of 0 is falsy and keeps the client's.
FinalStake(c, decoded) ==
    IF decoded /\ betAccount[calls[c].args.userId].stake # 0
    THEN betAccount[calls[c].args.userId].stake
    ELSE calls[c].args.stake

FinalSelection(c, decoded) ==
    IF decoded
    THEN decodeSelection(betAccount[calls[c].args.userId].selection, market.type)
    ELSE calls[c].args.selection

NewBet(c, decoded) ==
    [userId |-> calls[c].args.userId,
     roundId |-> calls[c].args.roundId,
     selection |-> FinalSelection(c, decoded),
     stake |-> FinalStake(c, decoded),
     odds |-> calculateOdds(FinalSelection(c, decoded), market.type, market.houseEdgeBps),
     status |-> PENDING,
     payout |-> Null,
     txSignature |-> calls[c].args.txSignature,
     settleTxSignature |-> FALSE,
     refundTxSignature |-> FALSE]

\* lines 515-527: Bet.create, failing with code 11000 on the unique index.
processBetConfirmation_create(c) ==
    /\ calls[c].pc = "create"
    /\ \E decoded \in BOOLEAN :
         IF DuplicateKey(calls[c].args.txSignature)
         THEN /\ calls' = [calls EXCEPT ![c].pc = "refetch", ![c].lookups = 0]
              /\ UNCHANGED bets
         ELSE /\ Len(bets) < MaxBets + NumCallers
              /\ bets' = Append(bets, NewBet(c, decoded))
              /\ calls' = [calls EXCEPT ![c].pc = "index", ![c].lookups = 0,
                              ![c].decoded = decoded,
                              ![c].result = [kind |-> "none", betId |-> Len(bets) + 1,
                                              via |-> "none"]]
    /\ UNCHANGED <<requestVars, round, market, leaderboard, redisVars, betAccount, ledger, run, refund, delegated>>

\* lines 528-535: what the call returns after a duplicate-key error.
DuplicateKeyRethrown(existing) ==
    [kind |-> "DuplicateKeyError", betId |-> 0, via |-> "throw"]

DuplicateKeyResult(existing) ==
    IF existing # 0 THEN [kind |-> "ok", betId |-> existing, via |-> "refetched"]
    ELSE [kind |-> "DuplicateKeyError", betId |-> 0, via |-> "throw"]

\* lines 528-535: re-fetch by signature, refresh the cache entry, return the Bet.
processBetConfirmation_refetch(c) ==
    /\ calls[c].pc = "refetch"
    /\ LET sig == calls[c].args.txSignature
           res == DuplicateKeyResult(BetBySignature(sig)) IN
       /\ calls' = Returned(c, res, 0)
       /\ cache' = IF res.kind = "ok" THEN [cache EXCEPT ![sig] = res.betId] ELSE cache
    /\ UNCHANGED <<requestVars, dbVars, lock, betCount, betAccount, ledger, run, refund, delegated>>

\* lines 538-548: cache the signature, index the bet under its round, count it.
processBetConfirmation_index(c) ==
    /\ calls[c].pc = "index"
    /\ cache' = [cache EXCEPT ![calls[c].args.txSignature] = calls[c].result.betId]
    /\ betCount' = betCount + 1
    /\ Return(c, "ok", calls[c].result.betId, "created")
    /\ UNCHANGED <<requestVars, dbVars, lock, betAccount, ledger, run, refund, delegated>>

\* The 30 s TTL of the lock key runs out (the code never deletes the key).
LockExpires(sig) ==
    /\ lock[sig]
    /\ lock' = [lock EXCEPT ![sig] = FALSE]
    /\ UNCHANGED <<requestVars, dbVars, cache, betCount, betAccount, ledger, calls, run, refund, delegated>>


\* The client's bet transaction is confirmed on the ledger: the bet account exists.
BetAccountLands(u) ==
    /\ betAccount[u] = NoAccount
    /\ betAccount' = [betAccount EXCEPT ![u] = ChainBet(u)]
    /\ UNCHANGED <<requestVars, dbVars, redisVars, ledger, calls, run, refund, delegated>>

\* ------------------------------------------------- initial values of flows
IdleCreate ==
    [pc |-> "idle", stake |-> 0, selection |-> [type |-> "parity", value |-> "even"],
     roundId |-> 1, walletValid |-> TRUE, timeRemaining |-> 0, needsVaultAta |-> FALSE,
     result |-> "none"]

IdleCodec ==
    [marketType |-> "EVEN_ODD", selection |-> [type |-> "parity", value |-> "even"],
     stage |-> "idle", encoded |-> NoAccount.selection,
     decoded |-> [type |-> "parity", value |-> "even"]]

IdleQuote ==
    [marketType |-> "EVEN_ODD", selection |-> [type |-> "parity", value |-> "even"],
     houseEdgeBps |-> 0, odds |-> Null]

\* wrote: the run has written a Bet or the Round document since it was delivered.
\* unconfirmed: a run has committed and undelegated the round, and no
\* ensureRoundUndelegated has returned normally since (kept from run to run).
\* other: an earlier delivery of the job that the scheduler timed out and that is
\* still in flight, with its own position and locals.
NoRun ==
    [pc |-> "idle", pendingBets |-> <<>>, i |-> 1, error |-> {}, outcome |-> "none",
     wrote |-> FALSE, unconfirmed |-> FALSE]

IdleRun ==
    [pc |-> "idle", pendingBets |-> <<>>, i |-> 1, error |-> {}, outcome |-> "none",
     wrote |-> FALSE, unconfirmed |-> FALSE, other |-> NoRun]

\* result: how the last refundBets call ended ("ok", or the error it threw).
IdleRefund ==
    [pc |-> "idle", calling |-> {}, result |-> "none"]

NoEntry == [totalBets |-> 0, totalWon |-> 0, totalStake |-> 0, totalPayout |-> 0]

\* Per Bet: a settleBet succeeded, a refundBet succeeded, a second call succeeded
\* after one had, a refundBet call was issued with the round delegated.
NoLedger == [settled |-> FALSE, refunded |-> FALSE, paidTwice |-> FALSE,
             whileDelegated |-> FALSE]

TheMarket == [type |-> "EVEN_ODD", houseEdgeBps |-> 500, mintAddress |-> TRUE]

NewRound(status) ==
    [status |-> status, outcome |-> NoOutcome, delegateTxHash |-> FALSE,
     undelegateTxHash |-> FALSE, settledAt |-> FALSE, openedAt |-> TRUE]

\* ------------------------------------------------------ Ledger Gateway
\* An error message, as the set of known signatures it contains (the worker
\* classifies by substring).  "transaction simulation failed" contains
\* "simulation failed"; a message with none of them is {}.
RetryableSignatures ==
    {"outcomenotrevealed", "outcome not revealed", "0x1787", "outcome not available on base",
     "instruction modified data of an account it does not own", "still delegated"}

OnchainSignatures ==
    {"simulation failed", "transaction simulation failed", "sendtransactionerror",
     "custom program error"}

\* What a call of the gateway may throw: a retryable error, a fatal on-chain error,
\* an error that is both (custom program error: 0x1787), and any other error.
LedgerErrors ==
    {{"still delegated"},
     {"simulation failed", "transaction simulation failed"},
     {"custom program error", "0x1787"},
     {}}

\* A call of the gateway returns a transaction identifier ("ok") or throws.
LedgerResults == {[ok |-> TRUE, error |-> {}]} \cup {[ok |-> FALSE, error |-> e] : e \in LedgerErrors}

isRetryableSettlementError(msg) == msg \cap RetryableSignatures # {}
isOnchainTxError(msg) == msg \cap OnchainSignatures # {}

\* ------------------------------------------- processBetSettlementJob
\* A query for the bets of the round that leaves the status filter out.
BetsOfRound == {i \in DOMAIN bets : bets[i].roundId = 1}

PendingBets == {i \in DOMAIN bets : bets[i].roundId = 1 /\ bets[i].status = PENDING}

\* Bet.find({ roundId, status: PENDING }): the _ids, in _id order.
RECURSIVE SortedSeq(_)
SortedSeq(S) ==
    IF S = {} THEN <<>>
    ELSE LET m == CHOOSE x \in S : \A y \in S : x <= y IN <<m>> \o SortedSeq(S \ {m})

\* The run is over: it returned normally or threw to the scheduler.
Finished(outcome) ==
    [run EXCEPT !.pc = "idle", !.outcome = outcome, !.i = 1, !.error = {},
                !.pendingBets = <<>>]

\* lines 127, 131 and 160: the run ends by throwing the error it caught, a plain
\* Error, to the scheduler, which retries a job that fails; the worker throws nothing
\* else.
HandedBackForRetry(outcome) == outcome \in {"retry", "threw", "reraised"}

\* A catch block that looks for an on-chain signature first.
CatchOnchainFirst(msg) ==
    IF isOnchainTxError(msg) THEN [run EXCEPT !.pc = "fbLoad", !.error = msg, !.i = 1]
    ELSE IF isRetryableSettlementError(msg) THEN Finished("retry")
    ELSE Finished("threw")

\* lines 123-133: the catch block, up to the decision to refund.
Catch(msg) ==
    IF isRetryableSettlementError(msg) THEN Finished("retry")
    ELSE IF ~isOnchainTxError(msg) THEN Finished("threw")
    ELSE [run EXCEPT !.pc = "fbLoad", !.error = msg, !.i = 1]

\* The scheduler delivers the job, again once the delivery before is over (a retry
\* or a new enqueue); lines 19-39: load the round and its PENDING bets.
processBetSettlementJob_load ==
    /\ run.pc = "idle"
    /\ LET started == [run EXCEPT !.outcome = "none", !.wrote = FALSE] IN
       run' = IF round.outcome = NoOutcome \/ ~market.mintAddress
              THEN [started EXCEPT !.outcome = "threw"]
              ELSE [started EXCEPT !.pendingBets = SortedSeq(PendingBets),
                                   !.pc = IF IsDelegated(round) THEN "undelegate"
                                          ELSE "waitOutcome"]
    /\ UNCHANGED <<requestVars, dbVars, confirmVars, ledger, refund, delegated>>

\* lines 41-50: commitAndUndelegateRoundER, persist undelegateTxHash and
\* baseLayerUndelegateTxHash, ensureRoundUndelegated.  The two gateway calls touch
\* nothing the other flows read, so the three awaits are one action.
processBetSettlementJob_undelegate ==
    /\ run.pc = "undelegate"
    /\ \E commit, ensure \in LedgerResults :
         IF ~commit.ok
         THEN /\ run' = Catch(commit.error)
              /\ UNCHANGED <<round, delegated>>
         ELSE /\ round' = [round EXCEPT !.undelegateTxHash = TRUE]
              /\ delegated' = FALSE
              /\ run' = IF ensure.ok THEN [run EXCEPT !.pc = "waitOutcome", !.wrote = TRUE]
                        ELSE [Catch(ensure.error) EXCEPT !.wrote = TRUE,
                                                         !.unconfirmed = TRUE]
    /\ UNCHANGED <<requestVars, bets, market, leaderboard, confirmVars, ledger, refund>>

AfterBet ==
    IF run.i < Len(run.pendingBets)
    THEN [run EXCEPT !.pc = "settleBet", !.i = run.i + 1]
    ELSE [run EXCEPT !.pc = "markSettled"]

\* line 52: waitForRoundOutcomeOnBase.
processBetSettlementJob_waitOutcome ==
    /\ run.pc = "waitOutcome"
    /\ \E res \in LedgerResults :
         run' = IF ~res.ok THEN Catch(res.error)
                ELSE IF run.pendingBets = <<>> THEN [run EXCEPT !.pc = "markSettled"]
                ELSE [run EXCEPT !.pc = "settleBet", !.i = 1]
    /\ UNCHANGED <<requestVars, dbVars, confirmVars, ledger, refund, delegated>>

\* The round is delegated when a refundBet call is issued for one of its bets.
RefundCall(b) ==
    [ledger[b] EXCEPT !.whileDelegated = @ \/ delegated]

\* A settleBet / refundBet call for the bet succeeded on the ledger.
SettleSucceeded(l) ==
    [l EXCEPT !.settled = TRUE, !.paidTwice = @ \/ l.settled \/ l.refunded]
RefundSucceeded(l) ==
    [l EXCEPT !.refunded = TRUE, !.paidTwice = @ \/ l.settled \/ l.refunded]

\* A settlement that stored no payout for a loser.
SettledPayoutAbsent(bet) ==
    IF checkBetWon(bet.selection, round.outcome) THEN bet.stake * bet.odds ELSE Null

\* lines 55-56: won and payout of a bet (payout in hundredths).
SettledStatus(bet) == IF checkBetWon(bet.selection, round.outcome) THEN WON ELSE LOST
SettledPayout(bet) ==
    IF checkBetWon(bet.selection, round.outcome) THEN bet.stake * bet.odds ELSE 0

\* lines 67-70: what Bet.updateOne({ _id }) sets after settleBet.
SettledBet(bet) ==
    [bet EXCEPT !.status = SettledStatus(bet), !.payout = SettledPayout(bet),
                !.settleTxSignature = TRUE]

\* lines 281-290 and 75-82: the leaderboard upsert of a winner and of a loser.
updateLeaderboard(entry, bet) ==
    IF checkBetWon(bet.selection, round.outcome)
    THEN [totalBets |-> entry.totalBets + 1, totalWon |-> entry.totalWon + 1,
          totalStake |-> entry.totalStake + bet.stake,
          totalPayout |-> entry.totalPayout + SettledPayout(bet)]
    ELSE [entry EXCEPT !.totalBets = @ + 1, !.totalStake = @ + bet.stake]

\* lines 54-86, one bet of the loop: new PublicKey(walletAddress) throws without a
\* wallet; settleBet; Bet.updateOne({ _id }) with the result; the leaderboard upsert,
\* which may throw.  The gateway call and the leaderboard touch nothing the other
\* flows read, so the three awaits are one action.
processBetSettlementJob_settleBet ==
    /\ run.pc = "settleBet"
    /\ LET b == run.pendingBets[run.i] IN
       IF walletAddress(bets[b].userId) = "none"
       THEN /\ run' = Catch({})
            /\ UNCHANGED <<bets, leaderboard, ledger>>
       ELSE \E res \in LedgerResults, written \in BOOLEAN :
              IF ~res.ok
              THEN /\ run' = Catch(res.error)
                   /\ UNCHANGED <<bets, leaderboard, ledger>>
              ELSE /\ ledger' = [ledger EXCEPT ![b] = SettleSucceeded(@)]
                   /\ bets' = [bets EXCEPT ![b] = SettledBet(bets[b])]
                   /\ IF written
                      THEN /\ leaderboard' = [leaderboard EXCEPT ![bets[b].userId] =
                                                 updateLeaderboard(@, bets[b])]
                           /\ run' = [AfterBet EXCEPT !.wrote = TRUE]
                      ELSE /\ UNCHANGED leaderboard
                           /\ run' = [Catch({}) EXCEPT !.wrote = TRUE]
    /\ UNCHANGED <<requestVars, round, market, confirmVars, refund, delegated>>

\* line 88: mark the round SETTLED.
processBetSettlementJob_markSettled ==
    /\ run.pc = "markSettled"
    /\ round' = [round EXCEPT !.status = SETTLED]
    /\ run' = [run EXCEPT !.pc = "settleRound", !.wrote = TRUE]
    /\ UNCHANGED <<requestVars, bets, market, leaderboard, confirmVars, ledger, refund, delegated>>

\* lines 90-98: settleRound (a failure is logged), then re-read the round.
processBetSettlementJob_settleRound ==
    /\ run.pc = "settleRound"
    /\ \E res \in LedgerResults :
         run' = IF IsDelegated(round) THEN [run EXCEPT !.pc = "postUndelegate"]
                ELSE Finished("settled")
    /\ UNCHANGED <<requestVars, dbVars, confirmVars, ledger, refund, delegated>>

\* A retry loop whose last failure fails the run and stamps nothing.
processBetSettlementJob_postUndelegateFatal ==
    /\ run.pc = "postUndelegate"
    /\ \E failures \in 0..MaxUndelegateAttempts :
         /\ round' = IF failures < MaxUndelegateAttempts
                     THEN [round EXCEPT !.undelegateTxHash = TRUE, !.settledAt = TRUE]
                     ELSE round
         /\ delegated' = (delegated /\ failures = MaxUndelegateAttempts)
         /\ run' = IF failures < MaxUndelegateAttempts
                   THEN [Finished("settled") EXCEPT !.wrote = TRUE]
                   ELSE Finished("threw")
    /\ UNCHANGED <<requestVars, bets, market, leaderboard, confirmVars, ledger, refund>>

\* lines 99-120: up to maxUndelegateAttempts calls of commitAndUndelegateRoundER;
\* the first that succeeds persists the undelegation and settledAt; when the last
\* one fails settledAt is stamped all the same.  `failures` is the number of
\* attempts that throw before one succeeds.
processBetSettlementJob_postUndelegate ==
    /\ run.pc = "postUndelegate"
    /\ \E failures \in 0..MaxUndelegateAttempts :
         /\ round' = IF failures < MaxUndelegateAttempts
                     THEN [round EXCEPT !.undelegateTxHash = TRUE, !.settledAt = TRUE]
                     ELSE [round EXCEPT !.settledAt = TRUE]
         /\ delegated' = (delegated /\ failures = MaxUndelegateAttempts)
         /\ run' = [Finished("settled") EXCEPT !.wrote = TRUE]
    /\ UNCHANGED <<requestVars, bets, market, leaderboard, confirmVars, ledger, refund>>

\* ----------------------------------- processBetSettlementJob: refund fallback
\* A refund that paid the bet out at its odds.
RefundedAtOdds(bet) ==
    [bet EXCEPT !.status = REFUNDED, !.payout = bet.stake * bet.odds,
                !.refundTxSignature = TRUE]

\* lines 187-191: what the refund fallback persists on the Bet.
RefundedBet(bet) ==
    [bet EXCEPT !.status = REFUNDED, !.payout = bet.stake * 100, !.refundTxSignature = TRUE]

\* A fallback that goes on to the refunds whatever ensureRoundUndelegated said.
processBetSettlementJob_fallbackLoadUnchecked ==
    /\ run.pc = "fbLoad"
    /\ \E res \in LedgerResults :
         /\ run' = IF PendingBets = {} THEN Finished("skipped")
                   ELSE [run EXCEPT !.pc = "fbRefund", !.i = 1,
                                    !.pendingBets = SortedSeq(PendingBets)]
         /\ delegated' = (delegated /\ (PendingBets = {} \/ ~res.ok))
    /\ UNCHANGED <<requestVars, dbVars, confirmVars, ledger, refund>>

\* lines 135-161: re-read the round, load the bets still PENDING and, when there
\* are some, ensureRoundUndelegated, whose error is thrown on as it is (line 160,
\* inside the catch block: it is not classified).
processBetSettlementJob_fallbackLoad ==
    /\ run.pc = "fbLoad"
    /\ \E res \in LedgerResults :
         /\ run' = IF PendingBets = {} THEN Finished("skipped")
                   ELSE IF ~res.ok THEN Finished("reraised")
                   ELSE [run EXCEPT !.pc = "fbRefund", !.i = 1, !.unconfirmed = FALSE,
                                    !.pendingBets = SortedSeq(PendingBets)]
         /\ delegated' = (delegated /\ (PendingBets = {} \/ ~res.ok))
    /\ UNCHANGED <<requestVars, dbVars, confirmVars, ledger, refund>>

AfterRefund ==
    IF run.i < Len(run.pendingBets)
    THEN [run EXCEPT !.pc = "fbRefund", !.i = run.i + 1]
    ELSE [run EXCEPT !.pc = "fbMarkFailed"]

\* lines 163-185: refundBet for the bet, skipped without wallet or mint; an error
\* of the call is logged.
processBetSettlementJob_fallbackRefund ==
    /\ run.pc = "fbRefund"
    /\ LET b == run.pendingBets[run.i] IN
       IF walletAddress(bets[b].userId) = "none" \/ ~market.mintAddress
       THEN /\ run' = AfterRefund
            /\ UNCHANGED ledger
       ELSE \E res \in LedgerResults :
              IF res.ok
              THEN /\ ledger' = [ledger EXCEPT ![b] = RefundSucceeded(RefundCall(b))]
                   /\ run' = [run EXCEPT !.pc = "fbPersist"]
              ELSE /\ ledger' = [ledger EXCEPT ![b] = RefundCall(b)]
                   /\ run' = AfterRefund
    /\ UNCHANGED <<requestVars, dbVars, confirmVars, refund, delegated>>

\* lines 187-193: mark the bet REFUNDED after its on-chain refund.
processBetSettlementJob_fallbackPersist ==
    /\ run.pc = "fbPersist"
    /\ LET b == run.pendingBets[run.i] IN
       bets' = [bets EXCEPT ![b] = RefundedBet(bets[b])]
    /\ run' = [AfterRefund EXCEPT !.wrote = TRUE]
    /\ UNCHANGED <<requestVars, round, market, leaderboard, confirmVars, ledger, refund, delegated>>

\* lines 196-199: mark the round FAILED.
processBetSettlementJob_fallbackMarkFailed ==
    /\ run.pc = "fbMarkFailed"
    /\ round' = [round EXCEPT !.status = FAILED, !.settledAt = TRUE]
    /\ run' = [Finished("refunded") EXCEPT !.wrote = TRUE]
    /\ UNCHANGED <<requestVars, bets, market, leaderboard, confirmVars, ledger, refund, delegated>>

\* ------------------------------------------------------------ refundBets
\* lines 407-438: load the round (a ValidationError without a mint) and its PENDING
\* bets; Promise.all starts every bet's refund at once: each bet with a wallet has
\* its refundBet call issued.
refundBets_load ==
    /\ refund.pc = "idle"
    /\ IF ~market.mintAddress
       THEN /\ refund' = [IdleRefund EXCEPT !.result = "ValidationError"]
            /\ UNCHANGED ledger
       ELSE LET called == {b \in PendingBets : walletAddress(bets[b].userId) # "none"} IN
            /\ refund' = [IdleRefund EXCEPT !.pc = "refunding", !.calling = called]
            /\ ledger' = [b \in BetIds |->
                            IF b \in called THEN RefundCall(b) ELSE ledger[b]]
    /\ UNCHANGED <<requestVars, dbVars, confirmVars, run, delegated>>

\* A write after the on-chain refund that leaves the Bet PENDING.
AdminRefundKeptPending(bet) == [bet EXCEPT !.payout = bet.stake * 100]

\* line 450: what refundBets persists on the Bet.
AdminRefundedBet(bet) == [bet EXCEPT !.status = REFUNDED, !.payout = bet.stake * 100]

\* lines 430-453: the refundBet call of one bet returns, and the bet is marked
\* REFUNDED, or throws, which is logged.
refundBets_refundBet(b) ==
    /\ refund.pc = "refunding"
    /\ b \in refund.calling
    /\ \E res \in LedgerResults :
         IF res.ok
         THEN /\ ledger' = [ledger EXCEPT ![b] = RefundSucceeded(@)]
              /\ bets' = [bets EXCEPT ![b] = AdminRefundedBet(@)]
         ELSE UNCHANGED <<ledger, bets>>
    /\ refund' = [refund EXCEPT !.calling = @ \ {b}]
    /\ UNCHANGED <<requestVars, round, market, leaderboard, confirmVars, run, delegated>>

\* lines 459-464: every refund is over; mark the round FAILED.
refundBets_markFailed ==
    /\ refund.pc = "refunding"
    /\ refund.calling = {}
    /\ round' = [round EXCEPT !.status = FAILED, !.settledAt = TRUE]
    /\ refund' = [IdleRefund EXCEPT !.result = "ok"]
    /\ UNCHANGED <<requestVars, bets, market, leaderboard, confirmVars, ledger, run, delegated>>

\* -------------------------------------------------------- round lifecycle
\* delegateRoundToER of the rounds service: delegateRound on the ledger, then
\* Round.updateOne({ _id }, { $set: { delegateTxHash } }).  Rounds are delegated for
\* their lock / reveal phase, so only a round that is not yet settled or failed.
delegateRoundToER ==
    /\ round.status \in {PREDICTING, LOCKED}
    /\ ~round.delegateTxHash
    /\ round' = [round EXCEPT !.delegateTxHash = TRUE]
    /\ delegated' = TRUE
    /\ UNCHANGED <<requestVars, bets, market, leaderboard, confirmVars, ledger, run, refund>>

\* ---------------------------------------------------------- settlement
\* A Bet as confirmBet leaves it.
ConfirmedBet(u, input, sig) ==
    [userId |-> u, roundId |-> 1, selection |-> input.selection, stake |-> input.stake,
     odds |-> calculateOdds(input.selection, TheMarket.type, TheMarket.houseEdgeBps),
     status |-> PENDING, payout |-> Null, txSignature |-> sig,
     settleTxSignature |-> FALSE, refundTxSignature |-> FALSE]

\* The bets of a user with a wallet, and one bet of the user without: that one is
\* never settled nor refunded, whatever it selects.
BetTemplates == {<<"u1", ci>> : ci \in ClientInputs}
                   \cup {<<"u2", CHOOSE ci \in ClientInputs : ci.stake = 1>>}

\* The round is LOCKED, its outcome revealed or not, with up to MaxBets confirmed
\* bets, when the settlement job is first delivered.
Init ==
    /\ \E n \in 0..MaxBets : \E t \in [1..n -> BetTemplates] :
         bets = [i \in 1..n |-> ConfirmedBet(t[i][1], t[i][2], i)]
    /\ \E revealed, wasDelegated \in BOOLEAN :
         round = [NewRound(LOCKED) EXCEPT
                    !.outcome = IF revealed THEN [tag |-> "Numeric", value |-> 37]
                                ELSE NoOutcome,
                    !.delegateTxHash = wasDelegated]
    /\ \E mint \in BOOLEAN : market = [TheMarket EXCEPT !.mintAddress = mint]
    /\ leaderboard = [u \in Users |-> NoEntry]
    /\ lock = [s \in Sigs |-> FALSE]
    /\ cache = [s \in Sigs |-> 0]
    /\ betCount = Len(bets)
    /\ betAccount = [u \in Users |-> NoAccount]
    /\ ledger = [b \in BetIds |-> NoLedger]
    /\ calls = [c \in Callers |-> IdleCall]
    /\ run = IdleRun
    /\ refund = IdleRefund
    /\ delegated = round.delegateTxHash
    /\ create = IdleCreate /\ codec = IdleCodec /\ quote = IdleQuote

Next ==
    \/ processBetSettlementJob_load
    \/ processBetSettlementJob_undelegate
    \/ processBetSettlementJob_waitOutcome
    \/ processBetSettlementJob_settleBet
    \/ processBetSettlementJob_markSettled
    \/ processBetSettlementJob_settleRound
    \/ processBetSettlementJob_postUndelegate
    \/ processBetSettlementJob_fallbackLoad
    \/ processBetSettlementJob_fallbackRefund
    \/ processBetSettlementJob_fallbackPersist
    \/ processBetSettlementJob_fallbackMarkFailed
    \/ refundBets_load
    \/ \E b \in BetIds : refundBets_refundBet(b)
    \/ refundBets_markFailed
    \/ delegateRoundToER

Spec == Init /\ [][Next]_vars

\* ----------------------------------------------- confirmation on its own
InitConfirm ==
    /\ bets = <<>>
    /\ \E st \in RoundStatus : round = NewRound(st)
    /\ market = TheMarket
    /\ leaderboard = [u \in Users |-> NoEntry]
    /\ lock = [s \in Sigs |-> FALSE]
    /\ cache = [s \in Sigs |-> 0]
    /\ betCount = 0
    /\ betAccount = [u \in Users |-> NoAccount]
    /\ ledger = [b \in BetIds |-> NoLedger]
    /\ calls = [c \in Callers |-> IdleCall]
    /\ run = IdleRun
    /\ refund = IdleRefund
    /\ delegated = FALSE
    /\ create = IdleCreate /\ codec = IdleCodec /\ quote = IdleQuote

NextConfirm ==
    \/ \E c \in Callers : confirmBet_acquireLock(c)
    \/ \E c \in Callers : confirmBet_findDuplicate(c)
    \/ \E c \in Callers : confirmBet_cacheLookup(c)
    \/ \E c \in Callers : confirmBet_loadRound(c)
    \/ \E c \in Callers : confirmBet_pollAccount(c)
    \/ \E c \in Callers : processBetConfirmation_create(c)
    \/ \E c \in Callers : processBetConfirmation_refetch(c)
    \/ \E c \in Callers : processBetConfirmation_index(c)
    \/ \E sig \in Sigs : LockExpires(sig)
    \/ \E u \in Users : BetAccountLands(u)

SpecConfirm == InitConfirm /\ [][NextConfirm]_vars


\* ------------------------------------------- the failure classification alone
\* Error messages, each as the set of the signatures it contains: every combination
\* of the ten substrings the worker looks for ("transaction simulation failed" never
\* without "simulation failed", which it contains).
ErrorMessages ==
    {m \in SUBSET (RetryableSignatures \cup OnchainSignatures) :
        "transaction simulation failed" \in m => "simulation failed" \in m}

\* lines 123-133: the catch block classifies the message of the error the try block
\* threw.
processBetSettlementJob_catch ==
    /\ run.pc = "caught"
    /\ run' = Catch(run.error)
    /\ UNCHANGED <<requestVars, dbVars, confirmVars, ledger, refund, delegated>>

\* A run has thrown an error, of any message, out of its try block, before it settled
\* a bet: the round is LOCKED with its outcome revealed.
InitClassify ==
    /\ \E n \in 0..MaxBets : \E t \in [1..n -> BetTemplates] :
         bets = [i \in 1..n |-> ConfirmedBet(t[i][1], t[i][2], i)]
    /\ \E wasDelegated \in BOOLEAN :
         round = [NewRound(LOCKED) EXCEPT !.outcome = [tag |-> "Numeric", value |-> 37],
                                          !.delegateTxHash = wasDelegated]
    /\ market = TheMarket
    /\ leaderboard = [u \in Users |-> NoEntry]
    /\ lock = [s \in Sigs |-> FALSE]
    /\ cache = [s \in Sigs |-> 0]
    /\ betCount = Len(bets)
    /\ betAccount = [u \in Users |-> NoAccount]
    /\ ledger = [b \in BetIds |-> NoLedger]
    /\ calls = [c \in Callers |-> IdleCall]
    /\ \E msg \in ErrorMessages : run = [IdleRun EXCEPT !.pc = "caught", !.error = msg]
    /\ refund = IdleRefund
    /\ delegated = round.delegateTxHash
    /\ create = IdleCreate /\ codec = IdleCodec /\ quote = IdleQuote

NextClassify ==
    \/ processBetSettlementJob_catch
    \/ processBetSettlementJob_fallbackLoad
    \/ processBetSettlementJob_fallbackRefund
    \/ processBetSettlementJob_fallbackPersist
    \/ processBetSettlementJob_fallbackMarkFailed

SpecClassify == InitClassify /\ [][NextClassify]_vars

\* ------------------------------------- the bet-account poll, lookup by lookup
\* A loop condition that lets one retry too many through.
PollCeilingOffByOne(i) == i > PollRetries

\* line 128: `i < 20` is false, the loop stops retrying; i is the retries made.
PollCeilingReached(i) == i >= PollRetries

\* The calls whose poll is followed lookup by lookup.
PollCallers == {1}

\* lines 127-146, one getAccountInfo at a time (the merged confirmBet_pollAccount
\* taken apart): the first lookup, then after each 250 ms sleep the next one, the bet
\* account landing or not in between.  lookups counts the lookups made.
confirmBet_lookup(c) ==
    /\ calls[c].pc = "poll"
    /\ LET made == calls[c].lookups + 1 IN
       calls' = IF betAccount[calls[c].args.userId] # NoAccount
                THEN [calls EXCEPT ![c].pc = "create", ![c].lookups = made]
                ELSE IF PollCeilingReached(made - 1)
                THEN Returned(c, [kind |-> "ValidationError", betId |-> 0, via |-> "throw"],
                              made)
                ELSE [calls EXCEPT ![c].lookups = made]
    /\ UNCHANGED <<requestVars, dbVars, redisVars, betAccount, ledger, run, refund, delegated>>

NextPoll ==
    \/ \E c \in PollCallers : confirmBet_acquireLock(c)
    \/ \E c \in PollCallers : confirmBet_loadRound(c)
    \/ \E c \in PollCallers : confirmBet_lookup(c)
    \/ \E c \in PollCallers : processBetConfirmation_create(c)
    \/ \E c \in PollCallers : processBetConfirmation_index(c)
    \/ \E u \in Users : BetAccountLands(u)

\* The event loop runs a call whose timer or lookup has completed: a call in its
\* poll loop takes its next lookup.
SpecPoll ==
    InitConfirm /\ [][NextPoll]_vars /\ \A c \in PollCallers : WF_vars(confirmBet_lookup(c))

\* ------------------------------------------------ selections a client sends
\* A record with the given fields, leaving out those that are undefined.
RECURSIVE WithFields(_, _, _)
WithFields(base, names, values) ==
    IF names = <<>> THEN base
    ELSE LET rest == WithFields(base, Tail(names), Tail(values)) IN
         IF Head(values) = Null THEN rest ELSE (Head(names) :> Head(values)) @@ rest

Typed(t) == [type |-> t]

RangeBounds == {0, 1, 50, 51, 100, 101}
ShapeBytes == {Null, 1, 255}

\* Selections of each market type: in range, at and past each limit validateSelection
\* tests, with fields left undefined, and of a type foreign to the market.
Selections(marketType) ==
    CASE marketType = "PICK_RANGE" ->
           {WithFields(Typed("range"), <<"min", "max">>, <<a, b>>) :
               a \in RangeBounds \cup {Null}, b \in RangeBounds \cup {Null}}
           \cup {WithFields(Typed("single"), <<"value">>, <<v>>) : v \in {Null, 0, 1, 100, 101}}
           \cup {[type |-> "digit", value |-> 5]}
      [] marketType = "EVEN_ODD" ->
           {[type |-> "parity", value |-> v] : v \in {"even", "odd", "maybe"}}
           \cup {Typed("parity"), [value |-> "even"]}
      [] marketType = "LAST_DIGIT" ->
           {WithFields(Typed("digit"), <<"value">>, <<v>>) : v \in {Null, 0, 9, 10}}
      [] marketType = "MODULO_THREE" ->
           {WithFields(Typed("modulo"), <<"value">>, <<v>>) : v \in {Null, 0, 2, 3}}
      [] marketType = "PATTERN_OF_DAY" ->
           {WithFields(Typed("pattern"), <<"patternId">>, <<v>>) : v \in {Null} \cup 0..7}
      [] marketType = "SHAPE_COLOR" ->
           {WithFields(Typed("shape"), <<"shape", "color", "size">>, <<sh, co, si>>) :
               sh \in ShapeBytes \cup {0, 256}, co \in ShapeBytes \cup {0}, si \in ShapeBytes}
      [] marketType = "ENTROPY_BATTLE" ->
           {[type |-> "entropy", source |-> v] : v \in {"tee", "chain", "sensor", "moon"}}
      [] marketType = "STREAK_METER" ->
           {WithFields(Typed("streak"), <<"target">>, <<v>>) :
               v \in {Null, 1, 2, MaxStreakTarget, MaxStreakTarget + 1}}
      [] marketType = "COMMUNITY_SEED" ->
           {WithFields(Typed("community"), <<"byte", "tolerance">>, <<v, t>>) :
               v \in {Null, 0, 255, 256}, t \in {Null, 0, 3, 8}}
           \cup {[type |-> "community", byte |-> 7, t |-> 2]}
      [] OTHER -> {Typed("jackpot")}

\* The variables of the flows that are not running.
QuietStore ==
    /\ bets = <<>>
    /\ leaderboard = [u \in Users |-> NoEntry]
    /\ lock = [s \in Sigs |-> FALSE]
    /\ cache = [s \in Sigs |-> 0]
    /\ betCount = 0
    /\ betAccount = [u \in Users |-> NoAccount]
    /\ ledger = [b \in BetIds |-> NoLedger]
    /\ calls = [c \in Callers |-> IdleCall]
    /\ run = IdleRun
    /\ refund = IdleRefund
    /\ delegated = FALSE

\* ------------------------------------------------- the Selection Codec alone
\* validateSelection, then encodeSelection, as createBetTransaction calls them
\* (lines 45 and 58).
encodeSelection_apply ==
    /\ codec.stage = "selection"
    /\ codec' = IF ~validateSelection(codec.selection, codec.marketType)
                THEN [codec EXCEPT !.stage = "rejected"]
                ELSE [codec EXCEPT !.stage = "encoded",
                                   !.encoded = encodeSelection(codec.selection,
                                                               codec.marketType)]
    /\ UNCHANGED <<dbVars, confirmVars, ledger, run, refund, delegated, create, quote>>

\* decodeSelection of the encoded selection (processBetConfirmation, line 506).
decodeSelection_apply ==
    /\ codec.stage = "encoded"
    /\ codec' = [codec EXCEPT !.stage = "decoded",
                              !.decoded = decodeSelection(codec.encoded, codec.marketType)]
    /\ UNCHANGED <<dbVars, confirmVars, ledger, run, refund, delegated, create, quote>>

InitCodec ==
    /\ QuietStore
    /\ round = NewRound(PREDICTING)
    /\ market = TheMarket
    /\ create = IdleCreate
    /\ quote = IdleQuote
    /\ \E t \in MarketTypes : \E sel \in Selections(t) :
         codec = [IdleCodec EXCEPT !.marketType = t, !.selection = sel,
                                   !.stage = "selection"]

NextCodec ==
    \/ encodeSelection_apply
    \/ decodeSelection_apply

SpecCodec == InitCodec /\ [][NextCodec]_vars

\* --------------------------------------------------- the Odds Engine alone
EdgeValues == (0 - EdgeSlack)..(BpsScale + EdgeSlack)

\* calculateOdds(selection, marketType, houseEdgeBps) as confirmBet calls it
\* (processBetConfirmation, line 523).
calculateOdds_apply ==
    /\ quote.odds = Null
    /\ quote' = [quote EXCEPT !.odds = calculateOdds(quote.selection, quote.marketType,
                                                     quote.houseEdgeBps)]
    /\ UNCHANGED <<dbVars, confirmVars, ledger, run, refund, delegated, create, codec>>

\* The same selection priced again with the market's house edge one basis point up.
calculateOdds_raiseEdge ==
    /\ quote.odds # Null
    /\ quote.houseEdgeBps + 1 \in EdgeValues
    /\ quote' = [quote EXCEPT !.houseEdgeBps = @ + 1,
                              !.odds = calculateOdds(quote.selection, quote.marketType,
                                                     quote.houseEdgeBps + 1)]
    /\ UNCHANGED <<dbVars, confirmVars, ledger, run, refund, delegated, create, codec>>

InitOdds ==
    /\ QuietStore
    /\ round = NewRound(PREDICTING)
    /\ market = TheMarket
    /\ create = IdleCreate
    /\ codec = IdleCodec
    /\ \E t \in MarketTypes : \E sel \in Selections(t) :
         quote = [IdleQuote EXCEPT !.marketType = t, !.selection = sel,
                                   !.houseEdgeBps = 0 - EdgeSlack]

NextOdds ==
    \/ calculateOdds_apply
    \/ calculateOdds_raiseEdge

SpecOdds == InitOdds /\ [][NextOdds]_vars

\* ------------------------------------------------ createBetTransaction
StakeValues == {0, 1}

\* The call is over with an error.
Thrown(call, error) == [call EXCEPT !.pc = "done", !.result = error]

\* lines 28-58: the stake check, Round.findById, the status, openedAt and closing
\* window checks (timeRemaining is roundDuration - (now - openedAt), read off the
\* clock at line 38), validateSelection, the wallet and mint checks, encodeSelection.
createBetTransaction_loadRound ==
    /\ create.pc = "idle"
    /\ \E stake \in StakeValues, rid \in RoundIds, sel \in Selections(market.type),
          walletValid \in BOOLEAN, elapsed \in 0..(RoundDuration + 1) :
         LET call == [create EXCEPT !.stake = stake, !.roundId = rid, !.selection = sel,
                                    !.walletValid = walletValid,
                                    !.timeRemaining = RoundDuration - elapsed] IN
         create' =
            IF stake <= 0 THEN Thrown(call, "ValidationError")
            ELSE IF rid # 1 THEN Thrown(call, "NotFoundError")
            ELSE IF round.status # PREDICTING THEN Thrown(call, "ConflictError")
            ELSE IF ~round.openedAt THEN Thrown(call, "ConflictError")
            ELSE IF call.timeRemaining < LockBuffer THEN Thrown(call, "ConflictError")
            ELSE IF ~validateSelection(sel, market.type) THEN Thrown(call, "ValidationError")
            ELSE IF ~walletValid THEN Thrown(call, "ValidationError")
            ELSE IF ~market.mintAddress THEN Thrown(call, "ValidationError")
            ELSE IF encodeSelection(sel, market.type) = EncodeThrows
            THEN Thrown(call, "ValidationError")
            ELSE [call EXCEPT !.pc = "vault"]
    /\ UNCHANGED <<dbVars, confirmVars, ledger, run, refund, delegated, codec, quote>>

\* lines 61-69: whether the vault's token account exists; an error is swallowed.
createBetTransaction_checkVault ==
    /\ create.pc = "vault"
    /\ \E needsVaultAta \in BOOLEAN :
         create' = [create EXCEPT !.pc = "placeBet", !.needsVaultAta = needsVaultAta]
    /\ UNCHANGED <<dbVars, confirmVars, ledger, run, refund, delegated, codec, quote>>

\* A placeBet step that also stores a Bet.
createBetTransaction_placeBetAndStore ==
    /\ create.pc = "placeBet"
    /\ create' = [create EXCEPT !.pc = "done", !.result = "ok"]
    /\ bets' = Append(bets, [userId |-> "u1", roundId |-> 1, selection |-> create.selection,
                              stake |-> create.stake, odds |-> 0, status |-> PENDING,
                              payout |-> Null, txSignature |-> 2,
                              settleTxSignature |-> FALSE, refundTxSignature |-> FALSE])
    /\ UNCHANGED <<round, market, leaderboard, confirmVars, ledger, run, refund, delegated,
                   codec, quote>>

\* lines 71-93: placeBet on the gateway builds the unsigned transaction; the call
\* returns it, or the gateway's error.
createBetTransaction_placeBet ==
    /\ create.pc = "placeBet"
    /\ \E res \in LedgerResults :
         create' = [create EXCEPT !.pc = "done",
                                  !.result = IF res.ok THEN "ok" ELSE "LedgerError"]
    /\ UNCHANGED <<dbVars, confirmVars, ledger, run, refund, delegated, codec, quote>>

\* A round in any status, opened or not, of a market of any type, with or without a
\* confirmed bet.
InitCreate ==
    /\ \E n \in 0..1 : bets = [i \in 1..n |-> ConfirmedBet("u1", CHOOSE ci \in ClientInputs : ci.stake = 1, i)]
    /\ \E st \in RoundStatus, opened \in BOOLEAN :
         round = [NewRound(st) EXCEPT !.openedAt = opened]
    /\ \E t \in MarketTypes, mint \in BOOLEAN :
         market = [TheMarket EXCEPT !.type = t, !.mintAddress = mint]
    /\ leaderboard = [u \in Users |-> NoEntry]
    /\ lock = [s \in Sigs |-> FALSE]
    /\ cache = [s \in Sigs |-> 0]
    /\ betCount = Len(bets)
    /\ betAccount = [u \in Users |-> NoAccount]
    /\ ledger = [b \in BetIds |-> NoLedger]
    /\ calls = [c \in Callers |-> IdleCall]
    /\ run = IdleRun
    /\ refund = IdleRefund
    /\ delegated = FALSE
    /\ create = IdleCreate
    /\ codec = IdleCodec
    /\ quote = IdleQuote

NextCreate ==
    \/ createBetTransaction_loadRound
    \/ createBetTransaction_checkVault
    \/ createBetTransaction_placeBet

SpecCreate == InitCreate /\ [][NextCreate]_vars

\* ------------------------------------ settlement of every kind of selection
\* The market types whose outcome is Numeric, and the one whose outcome is Shape.
NumericMarkets == {"PICK_RANGE", "EVEN_ODD", "LAST_DIGIT", "MODULO_THREE"}
SettleMarkets == NumericMarkets \cup {"SHAPE_COLOR"}

\* Outcomes a round of the market type may reveal.
Outcomes(marketType) ==
    IF marketType = "SHAPE_COLOR"
    THEN {[tag |-> "Shape", shape |-> sh, color |-> co] : sh \in {1, 2}, co \in {0, 3, 255}}
    ELSE {[tag |-> "Numeric", value |-> v] : v \in {0, 37, 50, 51, 100}}

\* The selections processBetConfirmation stores for a market type (lines 477-510):
\* the decoded form of the on-chain record of a selection that createBetTransaction
\* accepted and encoded, or the client's selection when decodeBetAccount throws.
StoredSelections(marketType) ==
    LET accepted == {s \in Selections(marketType) : validateSelection(s, marketType)} IN
    accepted \cup {decodeSelection(encodeSelection(s, marketType), marketType) : s \in accepted}

\* A Bet as confirmBet leaves it in a market of the type.
ConfirmedBetIn(marketType, u, selection, stake, sig) ==
    [userId |-> u, roundId |-> 1, selection |-> selection, stake |-> stake,
     odds |-> calculateOdds(selection, marketType, TheMarket.houseEdgeBps),
     status |-> PENDING, payout |-> Null, txSignature |-> sig,
     settleTxSignature |-> FALSE, refundTxSignature |-> FALSE]

\* A LOCKED round of a market of any of the types, its outcome revealed, with one
\* confirmed bet of a user with a wallet, when the settlement job is delivered.
InitSettle ==
    /\ \E t \in SettleMarkets :
         /\ market = [TheMarket EXCEPT !.type = t]
         /\ \E sel \in StoredSelections(t) : bets = <<ConfirmedBetIn(t, "u1", sel, 2, 1)>>
         /\ \E o \in Outcomes(t), wasDelegated \in BOOLEAN :
              round = [NewRound(LOCKED) EXCEPT !.outcome = o, !.delegateTxHash = wasDelegated]
    /\ leaderboard = [u \in Users |-> NoEntry]
    /\ lock = [s \in Sigs |-> FALSE]
    /\ cache = [s \in Sigs |-> 0]
    /\ betCount = Len(bets)
    /\ betAccount = [u \in Users |-> NoAccount]
    /\ ledger = [b \in BetIds |-> NoLedger]
    /\ calls = [c \in Callers |-> IdleCall]
    /\ run = IdleRun
    /\ refund = IdleRefund
    /\ delegated = round.delegateTxHash
    /\ create = IdleCreate /\ codec = IdleCodec /\ quote = IdleQuote

NextSettle ==
    \/ processBetSettlementJob_load
    \/ processBetSettlementJob_undelegate
    \/ processBetSettlementJob_waitOutcome
    \/ processBetSettlementJob_settleBet
    \/ processBetSettlementJob_markSettled
    \/ processBetSettlementJob_settleRound
    \/ processBetSettlementJob_postUndelegate
    \/ processBetSettlementJob_fallbackLoad
    \/ processBetSettlementJob_fallbackRefund
    \/ processBetSettlementJob_fallbackPersist
    \/ processBetSettlementJob_fallbackMarkFailed
    \/ delegateRoundToER

SpecSettle == InitSettle /\ [][NextSettle]_vars

\* --------------------------- confirmation beside the settlement of the round
\* The confirmBet calls that run beside the settlement job.
RaceCallers == {1}

\* The round is LOCKED with its outcome revealed and at most one confirmed bet when
\* the settlement job is first delivered; confirmations of bets placed before the
\* lock still arrive.  An earlier confirmBet call of a signature, over by now, may
\* have left its 30 s lock behind.
InitRace ==
    /\ \E n \in 0..1 :
         bets = [i \in 1..n |-> ConfirmedBet("u1", CHOOSE ci \in ClientInputs : ci.stake = 1, i)]
    /\ \E wasDelegated \in BOOLEAN :
         round = [NewRound(LOCKED) EXCEPT !.outcome = [tag |-> "Numeric", value |-> 37],
                                          !.delegateTxHash = wasDelegated]
    /\ market = TheMarket
    /\ leaderboard = [u \in Users |-> NoEntry]
    /\ lock \in [Sigs -> BOOLEAN]
    /\ cache = [s \in Sigs |-> IF s \in 1..Len(bets) THEN s ELSE 0]
    /\ betCount = Len(bets)
    /\ betAccount = [u \in Users |-> IF \E i \in DOMAIN bets : bets[i].userId = u
                                     THEN ChainBet(u) ELSE NoAccount]
    /\ ledger = [b \in BetIds |-> NoLedger]
    /\ calls = [c \in Callers |-> IdleCall]
    /\ run = IdleRun
    /\ refund = IdleRefund
    /\ delegated = round.delegateTxHash
    /\ create = IdleCreate /\ codec = IdleCodec /\ quote = IdleQuote

NextRace ==
    \/ \E c \in RaceCallers : confirmBet_acquireLock(c)
    \/ \E c \in RaceCallers : confirmBet_findDuplicate(c)
    \/ \E c \in RaceCallers : confirmBet_cacheLookup(c)
    \/ \E c \in RaceCallers : confirmBet_loadRound(c)
    \/ \E c \in RaceCallers : confirmBet_pollAccount(c)
    \/ \E c \in RaceCallers : processBetConfirmation_create(c)
    \/ \E c \in RaceCallers : processBetConfirmation_refetch(c)
    \/ \E c \in RaceCallers : processBetConfirmation_index(c)
    \/ \E sig \in Sigs : LockExpires(sig)
    \/ processBetSettlementJob_load
    \/ processBetSettlementJob_undelegate
    \/ processBetSettlementJob_waitOutcome
    \/ processBetSettlementJob_settleBet
    \/ processBetSettlementJob_markSettled
    \/ processBetSettlementJob_settleRound
    \/ processBetSettlementJob_postUndelegate
    \/ processBetSettlementJob_fallbackLoad
    \/ processBetSettlementJob_fallbackRefund
    \/ processBetSettlementJob_fallbackPersist
    \/ processBetSettlementJob_fallbackMarkFailed
    \/ delegateRoundToER

SpecRace == InitRace /\ [][NextRace]_vars

\* ----------------------------- a delivery retried while the one before runs on
\* The position and locals of a delivery, without the delivery beside it.
Alone(r) == [f \in DOMAIN NoRun |-> r[f]]

\* The scheduler's job timeout: the delivery in flight is given up and the job is
\* retried from the top; nothing cancels the delivery that was given up.
processBetSettlementJob_timeout ==
    /\ run.pc # "idle"
    /\ run.other.pc = "idle"
    /\ run' = [IdleRun EXCEPT !.outcome = "timedOut", !.other = Alone(run)]
    /\ UNCHANGED <<requestVars, dbVars, confirmVars, ledger, refund, delegated>>

\* The worker goes on with the other of the two deliveries: `run` is the delivery
\* that takes the next step.
processBetSettlementJob_resumeOther ==
    /\ run.other.pc # "idle"
    /\ run' = [f \in DOMAIN IdleRun |-> IF f = "other" THEN Alone(run) ELSE run.other[f]]
    /\ UNCHANGED <<requestVars, dbVars, confirmVars, ledger, refund, delegated>>

\* The round is LOCKED with its outcome revealed and at most one confirmed bet when
\* the settlement job is first delivered.
InitOverlap ==
    /\ \E n \in 0..1 : \E t \in [1..n -> BetTemplates] :
         bets = [i \in 1..n |-> ConfirmedBet(t[i][1], t[i][2], i)]
    /\ \E wasDelegated \in BOOLEAN :
         round = [NewRound(LOCKED) EXCEPT !.outcome = [tag |-> "Numeric", value |-> 37],
                                          !.delegateTxHash = wasDelegated]
    /\ market = TheMarket
    /\ leaderboard = [u \in Users |-> NoEntry]
    /\ lock = [s \in Sigs |-> FALSE]
    /\ cache = [s \in Sigs |-> 0]
    /\ betCount = Len(bets)
    /\ betAccount = [u \in Users |-> NoAccount]
    /\ ledger = [b \in BetIds |-> NoLedger]
    /\ calls = [c \in Callers |-> IdleCall]
    /\ run = IdleRun
    /\ refund = IdleRefund
    /\ delegated = round.delegateTxHash
    /\ create = IdleCreate /\ codec = IdleCodec /\ quote = IdleQuote

NextOverlap ==
    \/ processBetSettlementJob_load
    \/ processBetSettlementJob_undelegate
    \/ processBetSettlementJob_waitOutcome
    \/ processBetSettlementJob_settleBet
    \/ processBetSettlementJob_markSettled
    \/ processBetSettlementJob_settleRound
    \/ processBetSettlementJob_postUndelegate
    \/ processBetSettlementJob_fallbackLoad
    \/ processBetSettlementJob_fallbackRefund
    \/ processBetSettlementJob_fallbackPersist
    \/ processBetSettlementJob_fallbackMarkFailed
    \/ processBetSettlementJob_timeout
    \/ processBetSettlementJob_resumeOther
    \/ delegateRoundToER

SpecOverlap == InitOverlap /\ [][NextOverlap]_vars

\* ------------------------------------- the job under the scheduler's retries
\* The scheduler delivers the job once and again after every delivery that threw; a
\* delivery that returned completes the job.
processBetSettlementJob_deliver ==
    /\ run.outcome = "none" \/ HandedBackForRetry(run.outcome)
    /\ processBetSettlementJob_load

\* The steps of the run that call the gateway, and where the run stands after such
\* a step when every call of the step returned normally.
CallSteps == {"undelegate", "waitOutcome", "settleBet", "fbLoad", "fbRefund"}

AfterSuccess(pc) ==
    CASE pc = "undelegate" -> {"waitOutcome"}
      [] pc = "waitOutcome" -> {"settleBet", "markSettled"}
      [] pc = "settleBet" -> {"settleBet", "markSettled"}
      [] pc = "fbLoad" -> {"fbRefund"}
      [] pc = "fbRefund" -> {"fbPersist"}

\* The round is LOCKED with its outcome revealed and up to MaxBets confirmed bets of
\* users with a wallet when the settlement job is enqueued.
InitLive ==
    /\ \E n \in 0..MaxBets : \E t \in [1..n -> {tp \in BetTemplates : walletAddress(tp[1]) # "none"}] :
         bets = [i \in 1..n |-> ConfirmedBet(t[i][1], t[i][2], i)]
    /\ \E wasDelegated \in BOOLEAN :
         round = [NewRound(LOCKED) EXCEPT !.outcome = [tag |-> "Numeric", value |-> 37],
                                          !.delegateTxHash = wasDelegated]
    /\ market = TheMarket
    /\ leaderboard = [u \in Users |-> NoEntry]
    /\ lock = [s \in Sigs |-> FALSE]
    /\ cache = [s \in Sigs |-> 0]
    /\ betCount = Len(bets)
    /\ betAccount = [u \in Users |-> NoAccount]
    /\ ledger = [b \in BetIds |-> NoLedger]
    /\ calls = [c \in Callers |-> IdleCall]
    /\ run = IdleRun
    /\ refund = IdleRefund
    /\ delegated = round.delegateTxHash
    /\ create = IdleCreate /\ codec = IdleCodec /\ quote = IdleQuote

NextLive ==
    \/ processBetSettlementJob_deliver
    \/ processBetSettlementJob_undelegate
    \/ processBetSettlementJob_waitOutcome
    \/ processBetSettlementJob_settleBet
    \/ processBetSettlementJob_markSettled
    \/ processBetSettlementJob_settleRound
    \/ processBetSettlementJob_postUndelegate
    \/ processBetSettlementJob_fallbackLoad
    \/ processBetSettlementJob_fallbackRefund
    \/ processBetSettlementJob_fallbackPersist
    \/ processBetSettlementJob_fallbackMarkFailed
    \/ delegateRoundToER

\* A step of the job, and a step of it at pc in which every call returned normally.
JobStep == NextLive /\ run' # run
CallsSucceed(pc) == JobStep /\ run.pc = pc /\ run'.pc \in AfterSuccess(pc)

\* The scheduler delivers and re-delivers, the worker runs every delivery on to its
\* end (weak fairness of the job's steps), and a call that is made again and again
\* succeeds in the end (strong fairness, call by call, of the steps whose calls
\* succeed).
SpecLive ==
    /\ InitLive /\ [][NextLive]_vars
    /\ WF_vars(JobStep)
    /\ \A pc \in CallSteps : SF_vars(CallsSucceed(pc))

\* ------------------------------------------------------------ properties
Done(c) == calls[c].pc = "done"
SameSignature(c, d) == calls[c].args.txSignature = calls[d].args.txSignature

\* C1: the Bet collection never holds two Bets with the same txSignature, whatever
\* the interleaving of confirmBet calls, lock expiries and fall-through callers.
C1_OneBetPerSignature ==
    \A i, j \in DOMAIN bets : bets[i].txSignature = bets[j].txSignature => i = j

\* C1 witness: a call that held no lock found no Bet, went on to Bet.create and lost
\* the creation race to another call with its signature.
C1_Witness ==
    \E c \in Callers :
        /\ Done(c) /\ ~calls[c].acquired /\ calls[c].result.via = "refetched"
        /\ Cardinality({i \in DOMAIN bets :
                          bets[i].txSignature = calls[c].args.txSignature}) = 1

\* C2: a confirmBet call for an existing round that accepts confirmations, whose bet
\* account was on the ledger when the call began, returns a bet record, and all such
\* calls with one signature return the same bet id.
C2_AllCallsReturnTheBet ==
    \A c \in Callers :
        (/\ Done(c) /\ calls[c].visibleAtStart /\ calls[c].args.roundId = 1
         /\ AcceptsConfirmations(round.status))
        => /\ calls[c].result.kind = "ok"
           /\ \A d \in Callers :
                (Done(d) /\ SameSignature(c, d) /\ calls[d].result.kind = "ok")
                => calls[d].result.betId = calls[c].result.betId

\* C2 witness: two calls with one signature are over, one created the Bet and the
\* other hit the duplicate key and returned the same Bet.
C2_Witness ==
    \E c, d \in Callers :
        /\ c # d /\ Done(c) /\ Done(d) /\ SameSignature(c, d)
        /\ calls[c].visibleAtStart /\ calls[d].visibleAtStart
        /\ calls[c].result.via = "created" /\ calls[d].result.via = "refetched"
        /\ calls[c].result.betId = calls[d].result.betId

Terminal == {WON, LOST, REFUNDED}

\* C3: no Bet gets more than one successful on-chain settleBet-or-refundBet call,
\* over any settlement runs, retries, refund fallbacks and refundBets calls.
C3_PaidAtMostOnce == \A b \in BetIds : ~ledger[b].paidTwice

\* C4: when a settlement run returns with the round marked SETTLED and no error,
\* every Bet that was PENDING when the run loaded the round is WON or LOST.
C4_SettlementTotality ==
    [][(run.pc # "idle" /\ run'.pc = "idle" /\ run'.outcome = "settled")
          => \A k \in DOMAIN run.pendingBets :
                bets'[run.pendingBets[k]].status \in {WON, LOST}]_vars

\* C5: once a Bet is WON, LOST or REFUNDED no step changes its status or payout.
C5_BetMutatedOnce ==
    [][\A b \in DOMAIN bets :
          bets[b].status \in Terminal
             => bets'[b].status = bets[b].status /\ bets'[b].payout = bets[b].payout]_vars

\* C6: once the Round is SETTLED or FAILED no step changes its status.
C6_RoundStatusTerminal ==
    [][round.status \in {SETTLED, FAILED} => round'.status = round.status]_vars

\* C7 as stated: a Bet has a payout if and only if it is WON or REFUNDED.
C7_PayoutIffWonOrRefunded ==
    \A b \in DOMAIN bets : (bets[b].payout # Null) <=> bets[b].status \in {WON, REFUNDED}

\* C7: a Bet has a payout if and only if it is WON, LOST or REFUNDED, and a LOST
\* Bet's payout is 0; only a PENDING Bet has none.
C7_PayoutIffSettled ==
    \A b \in DOMAIN bets :
       /\ (bets[b].payout # Null) <=> bets[b].status \in Terminal
       /\ bets[b].status = LOST => bets[b].payout = 0

\* C7 witness: a settlement run stored a LOST Bet next to a Bet that is still PENDING.
C7_Witness ==
    \E b, p \in DOMAIN bets :
       /\ bets[b].status = LOST /\ bets[b].settleTxSignature /\ bets[b].payout = 0
       /\ bets[p].status = PENDING /\ bets[p].payout = Null

\* C8: every REFUNDED Bet has payout equal to its stake (payouts are in hundredths).
C8_RefundConservation ==
    \A b \in DOMAIN bets : bets[b].status = REFUNDED => bets[b].payout = bets[b].stake * 100

\* C8 witness: the refund fallback of a run and refundBets have each refunded a Bet,
\* one of them a Bet whose odds would pay more than its stake.
C8_Witness ==
    \E b, c \in DOMAIN bets :
       /\ bets[b].status = REFUNDED /\ bets[b].refundTxSignature
       /\ bets[c].status = REFUNDED /\ ~bets[c].refundTxSignature
       /\ bets[c].stake * bets[c].odds # bets[c].stake * 100

\* C9: a SETTLED Round is not delegated: delegateTxHash without undelegateTxHash.
C9_SettledNotDelegated == round.status = SETTLED => ~IsDelegated(round)

\* C10: no refundBet call is issued for a Bet while its round is delegated.
C10_NoRefundWhileDelegated == \A b \in BetIds : ~ledger[b].whileDelegated

\* C11: a settlement run that re-throws a retryable error to the scheduler has written
\* no Bet and no Round document.
C11_RetryableLeavesNoWrite ==
    (run.pc = "idle" /\ run.outcome = "retry") => ~run.wrote

\* C12: when a run that hit a fatal on-chain error leaves its refund fallback with the
\* round undelegated, the round is FAILED, however many Bets were still PENDING; and
\* every Bet the fallback loaded gets a refundBet call (none is passed over).
C12_FatalErrorRefundsAll ==
    [][/\ (/\ run.pc \in {"fbLoad", "fbMarkFailed"} /\ run'.pc = "idle"
           /\ run'.outcome \in {"skipped", "refunded"} /\ ~delegated')
          => round'.status = FAILED
       /\ (run.pc = "fbRefund" /\ run' # run)
          => walletAddress(bets[run.pendingBets[run.i]].userId) # "none"]_vars

\* C13: a settlement step that stores a Bet's result and whose leaderboard write
\* fails does not end the run: the run goes on to the next Bet or to marking the
\* round SETTLED.
C13_LeaderboardBestEffort ==
    [][(/\ run.pc = "settleBet" /\ run' # run
        /\ bets' # bets /\ leaderboard' = leaderboard)
          => run'.pc \in {"settleBet", "markSettled"}]_vars

\* C14: a step of the settlement job taken when the round is already SETTLED (a run
\* delivered again after a run that completed) changes no Bet status or payout and no
\* leaderboard total, and leaves the round SETTLED.
C14_RerunChangesNothing ==
    [][(run' # run /\ round.status = SETTLED)
          => /\ \A b \in DOMAIN bets :
                   bets'[b].status = bets[b].status /\ bets'[b].payout = bets[b].payout
             /\ leaderboard' = leaderboard
             /\ round'.status = SETTLED]_vars

\* C14 witness: the job runs again on a round that a run has settled, with a winner
\* and a loser on the leaderboard, and is about to mark the round SETTLED once more.
C14_Witness ==
    /\ run.pc = "markSettled" /\ round.status = SETTLED
    /\ \E b, c \in DOMAIN bets : bets[b].status = WON /\ bets[c].status = LOST
    /\ leaderboard["u1"].totalBets = 2 /\ leaderboard["u1"].totalWon = 1

\* The fields of a decoded selection that hold a value: a field that is undefined
\* counts as a field that is not there (parity and entropy fields are strings and
\* always set).
SetFields(sel, marketType) ==
    IF marketType \in {"EVEN_ODD", "ENTROPY_BATTLE"} THEN sel
    ELSE [f \in {"type"} \cup {g \in DOMAIN sel \ {"type"} : sel[g] # Null} |-> sel[f]]

\* C15: every selection that validateSelection accepts for a market type comes back
\* unchanged from decodeSelection(encodeSelection(selection, type), type).
C15_RoundTrip ==
    codec.stage = "decoded" => SetFields(codec.decoded, codec.marketType) = codec.selection

\* C16 as stated: when houseEdgeBps goes up within [0, 10000] the multiplier of an
\* accepted selection goes strictly down, or stays where it is only at the 1.00 floor.
C16_StrictlyDecreasing ==
    [][(/\ quote.odds # Null /\ quote'.houseEdgeBps > quote.houseEdgeBps
        /\ quote.houseEdgeBps >= 0 /\ quote'.houseEdgeBps <= BpsScale
        /\ validateSelection(quote.selection, quote.marketType) /\ quote.odds >= 100)
          => \/ quote'.odds < quote.odds
             \/ quote'.odds = quote.odds /\ quote.odds = 100]_vars

\* C16: when houseEdgeBps goes up the multiplier of a selection never goes up.
C16_NeverIncreasing ==
    [][(quote.odds # Null /\ quote'.houseEdgeBps > quote.houseEdgeBps)
          => quote'.odds <= quote.odds]_vars

\* C16 witness: parity priced at 2 basis points, 1.99 as at 1 basis point.
C16_Witness ==
    /\ quote.marketType = "EVEN_ODD" /\ quote.houseEdgeBps = 2 /\ quote.odds = 199
    /\ calculateOdds(quote.selection, quote.marketType, 1) = 199

\* The bin count of an equal-bin selection, 0 for a selection priced as a ratio.
BinCount(selection, marketType) ==
    CASE marketType = "EVEN_ODD" -> 2
      [] marketType = "LAST_DIGIT" -> 10
      [] marketType \in {"MODULO_THREE", "ENTROPY_BATTLE"} -> 3
      [] marketType = "JACKPOT" -> 100
      [] marketType = "PICK_RANGE" /\ TypeIs(selection, "single") -> 100
      [] /\ marketType = "PICK_RANGE" /\ TypeIs(selection, "range")
         /\ Has(selection, "min") /\ Has(selection, "max")
         /\ selection.max >= selection.min
         /\ 100 % (selection.max - selection.min + 1) = 0
           -> 100 \div (selection.max - selection.min + 1)
      [] OTHER -> 0

\* floor(binCount x edgeFactor x 100), the edge clamped to [0, 10000].
EqualBinFormula(binCount, houseEdgeBps) ==
    (binCount * BpsScale * 100) \div (BpsScale + Min(Max(houseEdgeBps, 0), BpsScale))

\* C17 as stated: an equal-bin selection is priced floor(binCount x edgeFactor x 100)/100.
C17_EqualBinFormula ==
    (quote.odds # Null /\ BinCount(quote.selection, quote.marketType) > 0)
        => quote.odds = EqualBinFormula(BinCount(quote.selection, quote.marketType),
                                        quote.houseEdgeBps)

\* C17: an equal-bin selection is priced floor(binCount x edgeFactor x 100)/100, and
\* 1.00 when that is below 1.00; parity at 500 basis points is 1.90 and the range
\* 1..50 at 0 basis points is 2.00.
C17_EqualBinFormulaFloored ==
    /\ (quote.odds # Null /\ BinCount(quote.selection, quote.marketType) > 0)
          => quote.odds = Max(100, EqualBinFormula(BinCount(quote.selection, quote.marketType),
                                                   quote.houseEdgeBps))
    /\ (quote.odds # Null /\ quote.marketType = "EVEN_ODD" /\ quote.houseEdgeBps = 500)
          => quote.odds = 190
    /\ (/\ quote.odds # Null /\ quote.marketType = "PICK_RANGE"
         /\ quote.selection = [type |-> "range", min |-> 1, max |-> 50]
         /\ quote.houseEdgeBps = 0)
          => quote.odds = 200

\* C17 witness: the range 1..100, one bin, priced 1.00 at 500 basis points where the
\* formula gives 0.95.
C17_Witness ==
    /\ quote.marketType = "PICK_RANGE"
    /\ quote.selection = [type |-> "range", min |-> 1, max |-> 100]
    /\ quote.houseEdgeBps = 500 /\ quote.odds = 100
    /\ EqualBinFormula(1, 500) = 95

\* C18: a selection that validateSelection accepts is priced at 1.00 or more, and a
\* price of 0 comes only from a ratio whose numerator (the width of a range) is 0.
C18_AtLeastOne ==
    quote.odds # Null
      => /\ validateSelection(quote.selection, quote.marketType) => quote.odds >= 100
         /\ quote.odds >= 100
              \/ /\ quote.odds = 0
                 /\ quote.marketType = "PICK_RANGE" /\ TypeIs(quote.selection, "range")
                 /\ Has(quote.selection, "min") /\ Has(quote.selection, "max")
                 /\ quote.selection.max - quote.selection.min + 1 = 0

\* C19: createBetTransaction succeeds only with stake > 0 on an existing PREDICTING
\* round that has opened, with more time left than the lock buffer; with a positive
\* stake on an existing round it fails with ConflictError when the round is not
\* PREDICTING or the time left is the lock buffer or less.
C19_AcceptsOnlyOpenRounds ==
    create.pc = "done"
      => /\ create.result = "ok"
              => /\ create.stake > 0 /\ create.roundId = 1
                 /\ round.status = PREDICTING /\ round.openedAt
                 /\ create.timeRemaining > LockBuffer
         /\ (/\ create.stake > 0 /\ create.roundId = 1
             /\ (round.status # PREDICTING \/ create.timeRemaining <= LockBuffer))
              => create.result = "ConflictError"

\* C20: no step of createBetTransaction creates or changes a Bet, whether the call
\* succeeds or fails.
C20_CreateWritesNoBet ==
    [][create' # create => bets' = bets]_vars

\* C20 witness: a createBetTransaction call has returned the transaction and the Bet
\* collection holds the one Bet it held before.
C20_Witness ==
    /\ create.pc = "done" /\ create.result = "ok"
    /\ Len(bets) = 1 /\ bets[1].status = PENDING

\* C21: a confirmBet call that gets to the round validation ends there with
\* NotFoundError when the round is missing and with ConflictError when the round is
\* neither PREDICTING nor LOCKED, and that step creates no Bet.
C21_RoundValidation ==
    [][\A c \in Callers :
          (calls[c].pc = "loadRound" /\ calls'[c] # calls[c])
            => /\ calls[c].args.roundId # 1
                    => /\ calls'[c].pc = "done"
                       /\ calls'[c].result.kind = "NotFoundError"
                       /\ bets' = bets
               /\ (calls[c].args.roundId = 1 /\ round.status \notin {PREDICTING, LOCKED})
                    => /\ calls'[c].pc = "done"
                       /\ calls'[c].result.kind = "ConflictError"
                       /\ bets' = bets]_vars

\* C21 witness: one call has failed on a missing round and another on a round that
\* no longer accepts confirmations, and no Bet carries the signature of either.
C21_Witness ==
    \E c, d \in Callers :
        /\ Done(c) /\ calls[c].result.kind = "NotFoundError" /\ calls[c].args.roundId # 1
        /\ Done(d) /\ calls[d].result.kind = "ConflictError" /\ calls[d].args.roundId = 1
        /\ round.status \notin {PREDICTING, LOCKED}
        /\ BetBySignature(calls[c].args.txSignature) = 0
        /\ BetBySignature(calls[d].args.txSignature) = 0

\* C22: a confirmBet call makes at most 1 + 20 lookups of the bet account and always
\* leaves its poll loop; it leaves it with ValidationError only after the last lookup
\* found the account absent, and that step creates no Bet.
C22_BoundedPoll ==
    /\ [](\A c \in Callers : calls[c].lookups <= 1 + PollRetries)
    /\ [][\A c \in Callers :
            (calls[c].pc = "poll" /\ calls'[c].pc = "done")
              => /\ calls'[c].result.kind = "ValidationError"
                 /\ calls'[c].lookups = 1 + PollRetries
                 /\ betAccount[calls[c].args.userId] = NoAccount
                 /\ bets' = bets]_vars
    /\ \A c \in PollCallers : (calls[c].pc = "poll") ~> (calls[c].pc # "poll")

\* C22 witness: a call has given up after its 21st lookup, no Bet exists, and the bet
\* account has landed since.
C22_Witness ==
    \E c \in PollCallers :
        /\ Done(c) /\ calls[c].result.kind = "ValidationError"
        /\ calls[c].lookups = 1 + PollRetries
        /\ bets = <<>>
        /\ betAccount[calls[c].args.userId] # NoAccount

\* What a step of refundBets does to the Bets: each Bet is left as it was, except the
\* Bet whose on-chain refund has just succeeded, which becomes REFUNDED with payout =
\* stake; refunds are issued for the PENDING Bets that have a wallet, for no other.
RefundStepTouchesOnlyRefunded ==
    /\ \A b \in DOMAIN bets :
         \/ /\ bets'[b] = bets[b]
            /\ (b \in refund.calling \ refund'.calling) => ledger'[b] = ledger[b]
         \/ /\ b \in refund.calling \ refund'.calling
            /\ ledger'[b].refunded
            /\ bets'[b] = [bets[b] EXCEPT !.status = REFUNDED, !.payout = bets[b].stake * 100]
    /\ refund'.pc = "refunding" /\ refund.pc = "idle"
         => refund'.calling = {b \in DOMAIN bets :
                                 /\ bets[b].roundId = 1 /\ bets[b].status = PENDING
                                 /\ walletAddress(bets[b].userId) # "none"}

C24_MissingOutcomeFailsFast ==
    [][(run.pc = "idle" /\ run' # run /\ round.outcome = NoOutcome)
         => /\ run'.pc = "idle"
            /\ ~HandedBackForRetry(run'.outcome)
            /\ bets' = bets /\ round' = round /\ ledger' = ledger
            /\ refund' = refund /\ delegated' = delegated]_vars

\* The call returns the Bet that carries its signature, at once: it creates no Bet
\* and goes neither to the round validation nor to the ledger poll.
ReturnsExistingBet(c) ==
    /\ calls'[c].pc = "done" /\ calls'[c].result.kind = "ok"
    /\ calls'[c].result.betId \in DOMAIN bets
    /\ bets[calls'[c].result.betId].txSignature = calls[c].args.txSignature
    /\ calls'[c].lookups = 0
    /\ bets' = bets /\ betAccount' = betAccount

\* C25: a confirmBet call that found the lock held returns the existing Bet at once
\* when Bet.findOne finds a Bet with its signature, and otherwise when the cache maps
\* its signature to a Bet: no Bet is created, the round is not read, nothing is polled.
C25_LockHeldReturnsExisting ==
    [][\A c \in Callers :
          /\ (/\ calls[c].pc = "findDuplicate" /\ calls'[c] # calls[c]
              /\ \E i \in DOMAIN bets : bets[i].txSignature = calls[c].args.txSignature)
                => ReturnsExistingBet(c)
          /\ (/\ calls[c].pc = "cacheLookup" /\ calls'[c] # calls[c]
              /\ cache[calls[c].args.txSignature] \in DOMAIN bets)
                => ReturnsExistingBet(c)]_vars

\* C25 witness: of two calls with one signature, the one that took the lock has
\* created the Bet and the other, which found the lock held and no Bet yet, has
\* returned the same Bet through the cache.
C25_Witness ==
    \E c, d \in Callers :
        /\ c # d /\ Done(c) /\ Done(d) /\ SameSignature(c, d)
        /\ ~calls[c].acquired /\ calls[c].result.via = "cached"
        /\ calls[d].result.via = "created"
        /\ calls[c].result.betId = calls[d].result.betId
        /\ Len(bets) = 1

\* C26: the Bet a confirmBet call creates holds the stake and the decoded selection
\* of the on-chain bet account when decodeBetAccount returned the record, whatever
\* the client sent, and the client's stake and selection when decoding threw.
C26_ChainValuesStored ==
    [][\A c \in Callers :
          (calls[c].pc = "create" /\ calls'[c].pc = "index")
            => LET bet == bets'[Len(bets')]
                   account == betAccount[calls[c].args.userId] IN
               /\ Len(bets') = Len(bets) + 1
               /\ IF calls'[c].decoded
                  THEN /\ bet.stake = account.stake
                       /\ bet.selection = decodeSelection(account.selection, market.type)
                  ELSE /\ bet.stake = calls[c].args.stake
                       /\ bet.selection = calls[c].args.selection]_vars

\* C26 witness: a call has stored a Bet from a bet account it decoded, with a stake
\* and a selection that both differ from what its client sent.
C26_Witness ==
    \E c \in Callers :
        /\ calls[c].pc = "index" /\ calls[c].decoded
        /\ bets[calls[c].result.betId].stake = ChainBet(calls[c].args.userId).stake
        /\ bets[calls[c].result.betId].stake # calls[c].args.stake
        /\ bets[calls[c].result.betId].selection # calls[c].args.selection

\* C28: in the refund fallback, when the check that the round is undelegated fails
\* (the round is still delegated after it), the run ends by re-raising the error; a
\* run that re-raises has issued no refundBet call, written no Bet and not marked the
\* round FAILED in the fallback; and the refunds start only on an undelegated round.
C28_FailedCheckStopsFallback ==
    [][(run.pc = "fbLoad" /\ run' # run)
         => /\ (PendingBets # {} /\ delegated /\ delegated')
                 => (run'.pc = "idle" /\ run'.outcome = "reraised")
            /\ run'.outcome = "reraised"
                 => (run'.pc = "idle" /\ bets' = bets /\ round' = round /\ ledger' = ledger)
            /\ run'.pc = "fbRefund" => ~delegated']_vars

\* C28 witness: a run has re-raised the error of the check; the round is still
\* delegated and LOCKED, its Bets are PENDING and none has had a refund.
C28_Witness ==
    /\ run.pc = "idle" /\ run.outcome = "reraised"
    /\ delegated /\ round.status = LOCKED
    /\ PendingBets # {} /\ PendingBets = DOMAIN bets
    /\ \A b \in DOMAIN bets : ~ledger[b].refunded

\* C27: no settleBet call is issued for a round that a run has committed and
\* undelegated until ensureRoundUndelegated has confirmed it, in that run or in a
\* later delivery of the job.
C27_NoSettleBeforeConfirmed ==
    [][(/\ run.pc = "settleBet" /\ run' # run
        /\ walletAddress(bets[run.pendingBets[run.i]].userId) # "none")
          => ~run.unconfirmed]_vars

\* C29: the catch block starts the refund fallback if and only if the message
\* contains an on-chain signature and no retryable signature; a message with both is
\* retryable; a retryable or not-on-chain error is re-thrown, and the step that
\* re-throws issues no refund and does not mark the round FAILED.
C29_Classification ==
    [][(run.pc = "caught" /\ run' # run)
         => LET retryable == run.error \cap RetryableSignatures # {}
                onchain == run.error \cap OnchainSignatures # {} IN
            /\ (run'.pc = "fbLoad") <=> (onchain /\ ~retryable)
            /\ retryable => (run'.pc = "idle" /\ run'.outcome = "retry")
            /\ (~retryable /\ ~onchain) => (run'.pc = "idle" /\ run'.outcome = "threw")
            /\ run'.pc # "fbLoad"
                 => /\ HandedBackForRetry(run'.outcome)
                    /\ bets' = bets /\ round' = round /\ ledger' = ledger]_vars

\* C29 witness: the fallback has run for an error that carries an on-chain signature
\* and no retryable one, has refunded a Bet and is about to mark the round FAILED.
C29_Witness ==
    /\ run.pc = "fbMarkFailed" /\ run.error = {"custom program error"}
    /\ round.status = LOCKED
    /\ \E b \in DOMAIN bets : bets[b].status = REFUNDED /\ ledger[b].refunded

\* C30: once the run has marked the round SETTLED, neither a failing settleRound nor
\* commit-and-undelegate attempts that all fail end the run with an error or change
\* the round status: the run returns normally, and the retry loop leaves settledAt
\* stamped also when its last attempt failed.
C30_PostSettleNonFatal ==
    [][(run.pc \in {"settleRound", "postUndelegate"} /\ run' # run)
         => /\ round'.status = round.status
            /\ \/ run.pc = "settleRound" /\ run'.pc = "postUndelegate"
               \/ run'.pc = "idle" /\ run'.outcome = "settled"
            /\ run.pc = "postUndelegate" => round'.settledAt]_vars

\* C30 witness: a run has returned normally after all three attempts failed: the
\* round is SETTLED with settledAt stamped, and still delegated.
C30_Witness ==
    /\ run.pc = "idle" /\ run.outcome = "settled"
    /\ round.status = SETTLED /\ round.settledAt
    /\ IsDelegated(round) /\ delegated

\* Whether a selection matches a numeric value: a range holds it, a single equals it,
\* a parity is its parity, a digit is its last digit, a modulo is its remainder by 3.
NumericMatch(selection, value) ==
    CASE TypeIs(selection, "range") ->
           /\ Field(selection, "min") # Null /\ Field(selection, "max") # Null
           /\ selection.min <= value /\ value <= selection.max
      [] TypeIs(selection, "single") -> Field(selection, "value") = value
      [] TypeIs(selection, "parity") ->
           Has(selection, "value")
             /\ selection.value = (IF value % 2 = 0 THEN "even" ELSE "odd")
      [] TypeIs(selection, "digit") -> Field(selection, "value") = value % 10
      [] TypeIs(selection, "modulo") -> Field(selection, "value") = value % 3
      [] OTHER -> FALSE

\* C31: with a Numeric outcome, every step that settles a bet persists it as WON with
\* payout = stake x odds when its selection matches the value, and as LOST with
\* payout 0 when it does not.
C31_NumericSettlement ==
    [][\A b \in DOMAIN bets :
          (/\ round.outcome.tag = "Numeric" /\ bets[b].status = PENDING
           /\ bets'[b].status \in {WON, LOST})
          => IF NumericMatch(bets[b].selection, round.outcome.value)
             THEN bets'[b].status = WON /\ bets'[b].payout = bets[b].stake * bets[b].odds
             ELSE bets'[b].status = LOST /\ bets'[b].payout = 0]_vars

\* C31 witness: the range 1..50 has won on the value 37, paid at stake x odds.
C31_Witness ==
    /\ round.outcome = [tag |-> "Numeric", value |-> 37]
    /\ \E b \in DOMAIN bets :
         /\ bets[b].selection = [type |-> "range", min |-> 1, max |-> 50]
         /\ bets[b].status = WON /\ bets[b].payout = bets[b].stake * bets[b].odds
         /\ bets[b].payout > 0 /\ ledger[b].settled

\* Whether a shape selection as the user submitted it matches a Shape outcome: the
\* shapes are equal and the selection names no color or names the outcome's.
ShapeMatch(selection, outcome) ==
    /\ TypeIs(selection, "shape")
    /\ Field(selection, "shape") = outcome.shape
    /\ (~Has(selection, "color") \/ selection.color = outcome.color)

\* The accepted selections of which the stored selection is a stored form.
SubmittedAs(stored, marketType) ==
    {s \in Selections(marketType) :
        /\ validateSelection(s, marketType)
        /\ stored \in {s, decodeSelection(encodeSelection(s, marketType), marketType)}}

\* C32: with a Shape outcome, every step that settles a shape bet makes it WON exactly
\* when the selection the bet was placed with has the outcome's shape and no color or
\* the outcome's color, whichever form confirmBet stored it in.
C32_ShapeSettlement ==
    [][\A b \in DOMAIN bets :
          (/\ round.outcome.tag = "Shape" /\ bets[b].status = PENDING
           /\ bets'[b].status \in {WON, LOST})
          => \A s \in SubmittedAs(bets[b].selection, market.type) :
                (bets'[b].status = WON) <=> ShapeMatch(s, round.outcome)]_vars

\* C33: a round with status SETTLED has no bet in status PENDING, with confirmBet
\* calls for the round running beside the settlement run.
C33_SettledHasNoPending ==
    round.status = SETTLED => PendingBets = {}

\* C34: every settlement run that returns without throwing leaves the round SETTLED
\* or FAILED.
C34_ReturnedRunIsTerminal ==
    [][(run.pc # "idle" /\ run'.pc = "idle" /\ ~HandedBackForRetry(run'.outcome))
          => round'.status \in {SETTLED, FAILED}]_vars

\* The on-chain bet account a Bet was confirmed from: the one of its user in its round
\* (the betPda the call named).
SameBetAccount(i, j) ==
    bets[i].userId = bets[j].userId /\ bets[i].roundId = bets[j].roundId

\* C35: no two Bet records exist for one on-chain bet account, whatever txSignature
\* values the confirmBet calls that name the account carry.
C35_OneBetPerBetAccount ==
    \A i, j \in DOMAIN bets : SameBetAccount(i, j) => i = j

\* The bets of a user that a settlement has left WON or LOST.
SettledBetsOf(u) == {b \in DOMAIN bets : bets[b].userId = u /\ bets[b].status \in {WON, LOST}}

RECURSIVE StakeSum(_)
StakeSum(S) ==
    IF S = {} THEN 0 ELSE LET b == CHOOSE x \in S : TRUE IN bets[b].stake + StakeSum(S \ {b})

\* C36: each bet is counted in its user's leaderboard entry at most once, over every
\* run and retry, overlapping ones included, and a REFUNDED bet is not counted:
\* totalBets is at most the number of the user's WON and LOST bets and totalStake at
\* most the sum of their stakes.
C36_CountedAtMostOnce ==
    \A u \in Users :
        /\ leaderboard[u].totalBets <= Cardinality(SettledBetsOf(u))
        /\ leaderboard[u].totalStake <= StakeSum(SettledBetsOf(u))

\* C37: for every selection validateSelection accepts, the odds of the selection that
\* decodeSelection returns for its encoding, which confirmation fixes on the Bet,
\* equal the odds of the selection as submitted, at every house edge.
C37_OddsSurviveCodec ==
    codec.stage = "decoded"
    => \A edge \in EdgeValues :
          calculateOdds(SetFields(codec.decoded, codec.marketType), codec.marketType, edge)
             = calculateOdds(codec.selection, codec.marketType, edge)

\* C38: after a settlement run that marked the round SETTLED and returned, the round
\* has settledAt set, whether or not it was still delegated after settleRound.
C38_SettledAtStamped ==
    [][(run.pc # "idle" /\ run'.pc = "idle" /\ run'.outcome = "settled")
          => round'.settledAt]_vars

\* C39: when the scheduler re-delivers every job that threw and every ledger call
\* succeeds in the end, a LOCKED round with a revealed outcome eventually is SETTLED
\* or FAILED with none of its bets PENDING.
C39_EventuallySettled ==
    (round.status = LOCKED /\ round.outcome # NoOutcome)
        ~> (round.status \in {SETTLED, FAILED} /\ PendingBets = {})

\* The call repeats the confirmation that the Bet came from: same signature, user
\* and round.
RetryOf(c, b) ==
    /\ b # 0
    /\ bets[b].userId = calls[c].args.userId
    /\ bets[b].roundId = calls[c].args.roundId

\* C40: a confirmBet call for a txSignature whose Bet exists returns that Bet and
\* raises no error, also when it acquired the lock (a retry after the lock expired)
\* and the round is SETTLED or FAILED by now.
C40_RetryReturnsExisting ==
    [][\A c \in Callers :
          LET existing == BetBySignature(calls[c].args.txSignature) IN
          (/\ calls[c].pc \notin {"idle", "done"} /\ calls'[c].pc = "done"
           /\ RetryOf(c, existing))
          => calls'[c].result.kind = "ok" /\ calls'[c].result.betId = existing]_vars

====
